---- MODULE Spec2Model ----
(***************************************************************************)
(* A model of the aggregate executor node, src/backend/executor/nodeAgg.c. *)
(*                                                                         *)
(* The node is driven by ExecAgg (Next).  One call of ExecAgg is a run of  *)
(* steps of the loops of agg_fill_hash_table, agg_retrieve_hash_table,     *)
(* agg_refill_hash_table and agg_retrieve_direct; pc tells in which loop   *)
(* the call is, and pc = "idle" is the node between two calls.             *)
(*                                                                         *)
(* Set, phase and partition numbers are 0-based as in the source; the      *)
(* sequences that hold arrays are indexed with number + 1.                 *)
(***************************************************************************)
EXTENDS Integers, Sequences, FiniteSets, TLC

VARIABLES
    plan,       \* the Agg plan node and, hanging off it, its chain
    input,      \* the rows the child plan yields, in order
    agg,        \* the AggState
    lts,        \* the logical tape sets of the spills
    childPos,   \* how many times the child has been called
    pc,         \* position of the running ExecAgg call
    lastRet,    \* what the last finished ExecAgg call returned
    out,        \* the rows returned since the node was (re)started
    fin,        \* the groups finalized since the node was (re)started
    eos,        \* how many calls have returned end-of-stream
    rescans,    \* how many times ExecReScanAgg has been called
    eflags,     \* the executor flags ExecInitAgg is called with
    assert_checking,    \* the build has USE_ASSERT_CHECKING: Assert() traps
    pertrans,       \* an AggStatePerTrans: what is fixed for one aggregate
    pergroupstate,  \* an AggStatePerGroup of that aggregate
    fcinfo,         \* pertrans->transfn_fcinfo
    transOp,        \* the last operation on pergroupstate
    transfnCalled,  \* whether that operation invoked the transition function
    advLog,         \* the advances of pergroupstate since it was initialized
    peragg,         \* an AggStatePerAgg: the final function of the aggregate
    finalResult,    \* what finalize_aggregate returned for the group, if it ran
    sortstates,     \* pertrans->sortstates[current_set]: the buffered inputs
    orderedLog,     \* the inputs process_ordered_aggregate_* read from the sort
                    \* and those it advanced the state with
    initagg         \* aggstate->aggs, peragg and pertrans while ExecInitAgg
                    \* looks the aggregates up

\* the variables of the node and those of the transition state of one
\* aggregate
nodevars == <<plan, input, agg, lts, childPos, pc, lastRet, out, fin, eos, rescans,
              eflags, assert_checking>>

transvars == <<pertrans, pergroupstate, fcinfo, transOp, transfnCalled, advLog,
               peragg, finalResult, sortstates, orderedLog, initagg>>

vars == <<plan, input, agg, lts, childPos, pc, lastRet, out, fin, eos, rescans,
          eflags, assert_checking,
          pertrans, pergroupstate, fcinfo, transOp, transfnCalled, advLog,
          peragg, finalResult, sortstates, orderedLog, initagg>>

(***************************************************************************)
(* Bounds of the model.                                                    *)
(***************************************************************************)
MaxRows == 3

\* ExecAgg is called until it has returned end-of-stream MaxEosCalls times
MaxEosCalls == 2

\* values of the two grouping columns a (column 1) and b (column 2)
Vals == {1, 2}

\* the non-null Datums are 0..MaxDatum
MaxDatum == 1

\* a group's transition state is advanced at most MaxAdvances times
MaxAdvances == 3

\* an aggregate has at most MaxDirectArgs direct arguments
MaxDirectArgs == 1

\* a group's sort buffers at most MaxBuffered inputs
MaxBuffered == 3

\* a query holds at most MaxAggs aggregate references
MaxAggs == 3

\* ExecReScanAgg is called at most MaxRescans times
MaxRescans == 1

(***************************************************************************)
(* Program constants.                                                      *)
(***************************************************************************)
HASH_MIN_PARTITIONS == 4
HASH_MAX_PARTITIONS == 256
BLCKSZ == 8192
HASH_PARTITION_MEM == HASH_MIN_PARTITIONS * BLCKSZ
HashBits == 32

EXEC_FLAG_REWIND == "EXEC_FLAG_REWIND"
EXEC_FLAG_BACKWARD == "EXEC_FLAG_BACKWARD"
EXEC_FLAG_MARK == "EXEC_FLAG_MARK"

AGG_PLAIN == "AGG_PLAIN"
AGG_SORTED == "AGG_SORTED"
AGG_HASHED == "AGG_HASHED"
AGG_MIXED == "AGG_MIXED"

(***************************************************************************)
(* Small helpers.                                                          *)
(***************************************************************************)
Max(x, y) == IF x > y THEN x ELSE y

Min(x, y) == IF x < y THEN x ELSE y

Range(s) == {s[i] : i \in DOMAIN s}

RECURSIVE SeqsUpTo(_, _)
SeqsUpTo(S, n) ==
    IF n = 0 THEN {<<>>}
    ELSE LET shorter == SeqsUpTo(S, n - 1)
         IN shorter \cup {Append(s, x) : s \in {t \in shorter : Len(t) = n - 1}, x \in S}

RECURSIVE Pow2(_)
Pow2(n) == IF n = 0 THEN 1 ELSE 2 * Pow2(n - 1)

(***************************************************************************)
(* Rows.  A child row has the two grouping columns c[1], c[2] and the      *)
(* aggregated column id, which is the row's position in the child output.  *)
(* A column of a spilled tuple that is not needed is stored as null (0).   *)
(***************************************************************************)
NoRow == [id |-> 0, c |-> <<0, 0>>]

TupIsNull(slot) == slot.id = 0

ChildRow(i) == [id |-> i, c |-> input[i]]

\* the grouping columns grpColIdx of a row
KeyOf(row, grpColIdx) == [i \in 1..Len(grpColIdx) |-> row.c[grpColIdx[i]]]

(***************************************************************************)
(* The transition state of one group (AggStatePerGroupData) of the one     *)
(* aggregate of the model, an order-insensitive aggregate over column id:  *)
(* rows are the ids the transition function has absorbed, n the number of  *)
(* calls of the transition function.  NullPG is a null AggStatePerGroup    *)
(* pointer.                                                                *)
(***************************************************************************)
InitPG == [rows |-> {}, n |-> 0]

NullPG == [rows |-> {}, n |-> -1]

TransFn(pg, row) == [rows |-> pg.rows \cup {row.id}, n |-> pg.n + 1]

(***************************************************************************)
(* The plans.  A plan holds the strategy of the real Agg node, the sorted  *)
(* (or plain) nodes of the chain as the phases 1..N (each with its         *)
(* grouping columns grpColIdx in sort order and the lengths of its         *)
(* grouping sets, most specific first; no grouping sets: <<>>), the        *)
(* grouping columns of each hashed node, the planner's estimate numGroups  *)
(* of the hashed nodes, the memory settings and the HAVING qual.  The      *)
(* child of a plan whose phase 1 is AGG_SORTED yields its rows sorted on   *)
(* that phase's grouping columns (the planner sees to it).                 *)
(***************************************************************************)
SortedPhase(strategy, grpColIdx, gsets) ==
    [aggstrategy |-> strategy, grpColIdx |-> grpColIdx, gsets |-> gsets]

PlanShapes ==
    { [aggstrategy |-> AGG_PLAIN,
       sorted |-> <<SortedPhase(AGG_PLAIN, <<>>, <<>>)>>, hashes |-> <<>>],
      [aggstrategy |-> AGG_SORTED,
       sorted |-> <<SortedPhase(AGG_SORTED, <<1, 2>>, <<>>)>>, hashes |-> <<>>],
      [aggstrategy |-> AGG_SORTED,
       sorted |-> <<SortedPhase(AGG_SORTED, <<1, 2>>, <<2, 1, 0>>)>>, hashes |-> <<>>],
      [aggstrategy |-> AGG_SORTED,
       sorted |-> <<SortedPhase(AGG_SORTED, <<1, 2>>, <<2, 1>>),
                    SortedPhase(AGG_SORTED, <<2>>, <<1, 0>>)>>, hashes |-> <<>>],
      [aggstrategy |-> AGG_HASHED, sorted |-> <<>>, hashes |-> << <<1, 2>> >>],
      [aggstrategy |-> AGG_HASHED, sorted |-> <<>>, hashes |-> << <<1>>, <<2>> >>],
      [aggstrategy |-> AGG_MIXED,
       sorted |-> <<SortedPhase(AGG_SORTED, <<1>>, <<1, 0>>)>>, hashes |-> << <<2>> >>],
      [aggstrategy |-> AGG_MIXED,
       sorted |-> <<SortedPhase(AGG_PLAIN, <<>>, <<0>>)>>, hashes |-> << <<1>>, <<2>> >>],
      [aggstrategy |-> AGG_MIXED,
       sorted |-> <<SortedPhase(AGG_SORTED, <<1, 2>>, <<2>>),
                    SortedPhase(AGG_SORTED, <<2>>, <<1>>)>>, hashes |-> << <<1>> >>] }

\* work_mem (kB), hashagg_mem_overflow, the planner's estimate of the size of
\* a hash entry (hash_agg_entry_size + transSpace) and the bytes the hash
\* arena really grows by for each group
MemCases ==
    { [work_mem |-> 64, hashagg_mem_overflow |-> FALSE,
       hashentrysize |-> 40000, entryBytes |-> 70000],
      [work_mem |-> 64, hashagg_mem_overflow |-> FALSE,
       hashentrysize |-> 40000, entryBytes |-> 100],
      [work_mem |-> 64, hashagg_mem_overflow |-> FALSE,
       hashentrysize |-> 64, entryBytes |-> 100],
      [work_mem |-> 64, hashagg_mem_overflow |-> TRUE,
       hashentrysize |-> 40000, entryBytes |-> 70000] }

NoMem == [work_mem |-> 64, hashagg_mem_overflow |-> FALSE,
          hashentrysize |-> 64, entryBytes |-> 100]

\* the HAVING qual is count >= having
Havings == {0, 2}

UseHashing(p) == p.aggstrategy \in {AGG_HASHED, AGG_MIXED}

Plans ==
    { p \in { [aggstrategy |-> sh.aggstrategy, sorted |-> sh.sorted,
               hashes |-> sh.hashes, numGroups |-> 2, mem |-> m, having |-> h] :
                sh \in PlanShapes, m \in MemCases, h \in Havings } :
        UseHashing(p) \/ p.mem = NoMem }

\* lexicographic <= of two keys of the same length
RECURSIVE KeyLeq(_, _)
KeyLeq(k1, k2) ==
    IF Len(k1) = 0 THEN TRUE
    ELSE IF k1[1] # k2[1] THEN k1[1] < k2[1]
    ELSE KeyLeq(Tail(k1), Tail(k2))

IsSortedOn(rows, grpColIdx) ==
    \A i \in 1..(Len(rows) - 1) :
        KeyLeq([j \in 1..Len(grpColIdx) |-> rows[i][grpColIdx[j]]],
               [j \in 1..Len(grpColIdx) |-> rows[i + 1][grpColIdx[j]]])

Inputs(p) ==
    { rows \in SeqsUpTo(Vals \X Vals, MaxRows) :
        /\ p.aggstrategy # AGG_HASHED /\ p.sorted[1].aggstrategy = AGG_SORTED
              => IsSortedOn(rows, p.sorted[1].grpColIdx) }

NumPhases(p) == 1 + Len(p.sorted)
NumHashes(p) == Len(p.hashes)

RECURSIVE MaxLen(_)
MaxLen(ss) == IF ss = <<>> THEN 0 ELSE Max(Len(Head(ss).gsets), MaxLen(Tail(ss)))

\* aggstate->maxsets
MaxSets(p) == Max(1, MaxLen(p.sorted))

\* aggstate->phases[ph].numsets and .aggstrategy
PhaseNumSets(p, ph) == IF ph = 0 THEN NumHashes(p) ELSE Len(p.sorted[ph].gsets)

PhaseStrategy(p, ph) == IF ph = 0 THEN p.aggstrategy ELSE p.sorted[ph].aggstrategy

(***************************************************************************)
(* Hash values.  A uint32 is the set of the positions of its 1 bits,       *)
(* position 1 being the most significant bit.  TupleHashTableHash is the   *)
(* hash of the grouping key: the values of column a collide in the two     *)
(* high-order bits and differ in the third; those of column b differ in    *)
(* the first bit when b is the only grouping column and in the fourth      *)
(* otherwise.                                                              *)
(***************************************************************************)
ColHash(col, val, ncols) ==
    IF val = 1 THEN {} ELSE IF col = 1 THEN {3} ELSE IF ncols = 1 THEN {1} ELSE {4}

calculate_hash(key, grpColIdx) ==
    UNION {ColHash(grpColIdx[i], key[i], Len(grpColIdx)) : i \in 1..Len(grpColIdx)}

\* hash << n and hash >> n of a uint32
ShiftLeft32(h, n) == {i - n : i \in {j \in h : j - n >= 1}}

ShiftRight32(h, n) == {i + n : i \in {j \in h : j + n <= HashBits}}

RECURSIVE ToNat(_)
ToNat(h) ==
    IF h = {} THEN 0
    ELSE LET i == CHOOSE j \in h : TRUE
         IN Pow2(HashBits - i) + ToNat(h \ {i})

\* my_log2: the least i with 2^i >= num
RECURSIVE Log2From(_, _)
Log2From(num, i) == IF Pow2(i) >= num THEN i ELSE Log2From(num, i + 1)

my_log2(num) == Log2From(num, 0)

(***************************************************************************)
(* Spilling.  The operations on a HashAggSpill work on the pair sw of the  *)
(* spill (sw.spill) and the tape sets (sw.lts); a tape set is named by its *)
(* index in the tape sets, 0 is the null pointer.                          *)
(***************************************************************************)
\* a * b = q * c + r with 0 <= r < c, bit by bit of b: the product of the
\* estimates need not fit the integers of the checker
MulDivStep(h, a, odd, c) ==
    [q |-> 2 * h.q + odd * (a \div c) + (2 * h.r + odd * (a % c)) \div c,
     r |-> (2 * h.r + odd * (a % c)) % c]

RECURSIVE MulDiv(_, _, _)
MulDiv(a, b, c) ==
    IF b = 0 THEN [q |-> 0, r |-> 0]
    ELSE MulDivStep(MulDiv(a, b \div 2, c), a, b % 2, c)

hash_choose_num_spill_partitions_nomax(work_mem, input_groups, hashentrysize) ==
    Max(HASH_MIN_PARTITIONS,
        Min((work_mem * 1024) \div (4 * BLCKSZ),
            1 + MulDiv(3 * input_groups, hashentrysize, 2 * work_mem * 1024).q))

hash_choose_num_spill_partitions_nomin(work_mem, input_groups, hashentrysize) ==
    Min(HASH_MAX_PARTITIONS,
        Min((work_mem * 1024) \div (4 * BLCKSZ),
            1 + MulDiv(3 * input_groups, hashentrysize, 2 * work_mem * 1024).q))

\* HASH_PARTITION_FACTOR is 1.5; partition_limit is work_mem / 4 in blocks
hash_choose_num_spill_partitions(work_mem, input_groups, hashentrysize) ==
    Min(HASH_MAX_PARTITIONS,
        Max(HASH_MIN_PARTITIONS,
            Min((work_mem * 1024) \div (4 * BLCKSZ),
                1 + MulDiv(3 * input_groups, hashentrysize, 2 * work_mem * 1024).q)))

\* a zeroed HashAggSpill
NoSpill == [n_partitions |-> 0, partition_bits |-> 0, partitions |-> <<>>,
            ntuples |-> <<>>, lts |-> 0]

\* a logical tape: the tuples written and how many of them have been read
NoTape == [data |-> <<>>, rpos |-> 0]

\* LogicalTapeSetCreate(n): a new tape set at the end of tapesets
LogicalTapeSetCreate(tapesets, n) ==
    Append(tapesets, [tapes |-> [i \in 1..n |-> NoTape], closed |-> 0])

LogicalTapeSetExtend(tapesets, id, n) ==
    [tapesets EXCEPT ![id].tapes =
        [i \in 1..(Len(@) + n) |-> IF i <= Len(@) THEN @[i] ELSE NoTape]]

SpillPartitions_counters(sw, partition_bits, n, first) ==
    [spill |-> [n_partitions |-> n,
                partition_bits |-> partition_bits,
                partitions |-> [i \in 1..n |-> first + i - 1],
                ntuples |-> [i \in 1..(n + 1) |-> 0],
                lts |-> IF sw.spill.lts = 0 THEN Len(sw.lts) + 1 ELSE sw.spill.lts],
     lts |-> IF sw.spill.lts = 0 THEN LogicalTapeSetCreate(sw.lts, n)
             ELSE LogicalTapeSetExtend(sw.lts, sw.spill.lts, n)]

\* the two branches of hash_spill_init: n partitions of partition_bits bits
\* on the tapes first.. of a new tape set or of the one the spill has
SpillPartitions(sw, partition_bits, n, first) ==
    [spill |-> [n_partitions |-> n,
                partition_bits |-> partition_bits,
                partitions |-> [i \in 1..n |-> first + i - 1],
                ntuples |-> [i \in 1..n |-> 0],
                lts |-> IF sw.spill.lts = 0 THEN Len(sw.lts) + 1 ELSE sw.spill.lts],
     lts |-> IF sw.spill.lts = 0 THEN LogicalTapeSetCreate(sw.lts, n)
             ELSE LogicalTapeSetExtend(sw.lts, sw.spill.lts, n)]

\* hash_spill_init once partition_bits is settled
SpillInitBits(sw, partition_bits) ==
    IF sw.spill.lts = 0
    THEN SpillPartitions(sw, partition_bits, Pow2(partition_bits), 0)
    ELSE SpillPartitions(sw, my_log2(Pow2(partition_bits)),
                         Pow2(my_log2(Pow2(partition_bits))),
                         Len(sw.lts[sw.spill.lts].tapes))

SpillInitChosen_untruncated(sw, input_bits, bits0) == SpillInitBits(sw, bits0)

\* hash_spill_init once the number of partitions is chosen
SpillInitChosen(sw, input_bits, bits0) ==
    SpillInitBits(sw, IF bits0 + input_bits >= HashBits
                      THEN HashBits - input_bits ELSE bits0)

hash_spill_init(sw, work_mem, input_bits, input_groups, hashentrysize) ==
    SpillInitChosen(sw, input_bits,
        my_log2(hash_choose_num_spill_partitions(work_mem, input_groups,
                                                 hashentrysize)))

RECURSIVE SumTo(_, _)
SumTo(ntuples, i) == IF i = 0 THEN 0 ELSE ntuples[i] + SumTo(ntuples, i - 1)

SpillPartition_spread(spill, input_bits, hash) ==
    SumTo(spill.ntuples, Len(spill.ntuples)) % spill.n_partitions

SpillPartition_high(spill, input_bits, hash) ==
    IF spill.partition_bits = 0 THEN 0
    ELSE ToNat(ShiftRight32(hash, HashBits - spill.partition_bits))

\* the partition hash_spill_tuple picks
SpillPartition(spill, input_bits, hash) ==
    IF spill.partition_bits = 0 THEN 0
    ELSE ToNat(ShiftRight32(ShiftLeft32(hash, input_bits),
                            HashBits - spill.partition_bits))

\* the writes of hash_spill_tuple to the tape of the partition
SpillWrite(sw, partition, tuple, hash) ==
    [spill |-> [sw.spill EXCEPT !.ntuples[partition + 1] = @ + 1],
     lts |-> [sw.lts EXCEPT
                ![sw.spill.lts].tapes[sw.spill.partitions[partition + 1] + 1].data =
                    Append(@, [hash |-> hash, tuple |-> tuple])]]

hash_spill_tuple_lost(sw, input_bits, tuple, hash) == sw

hash_spill_tuple(sw, input_bits, tuple, hash) ==
    SpillWrite(sw, SpillPartition(sw.spill, input_bits, hash), tuple, hash)

hash_batch_new(ltsid, tapenum, setno, input_tuples, input_bits) ==
    [input_tape |-> tapenum, input_bits |-> input_bits,
     input_tuples |-> input_tuples, setno |-> setno,
     spill |-> [NoSpill EXCEPT !.lts = ltsid], lts |-> ltsid]

\* the batches hash_spill_finish makes of the partitions lo..hi of a spill,
\* in the order of the partitions
RECURSIVE SpillBatches(_, _, _, _, _)
SpillBatches(spill, setno, input_bits, lo, hi) ==
    IF lo > hi THEN <<>>
    ELSE IF lo = hi
    THEN <<hash_batch_new(spill.lts, spill.partitions[lo], setno, spill.ntuples[lo],
                          spill.partition_bits + input_bits)>>
    ELSE SpillBatches(spill, setno, input_bits, lo, (lo + hi) \div 2)
         \o SpillBatches(spill, setno, input_bits, (lo + hi) \div 2 + 1, hi)

\* hash_spill_finish on the AggState a
hash_spill_finish_front(a, spill, setno, input_bits) ==
    IF spill.n_partitions = 0 THEN a
    ELSE [a EXCEPT !.hash_batches = SpillBatches(spill, setno, input_bits, 1, spill.n_partitions) \o @,
                   !.lts_list = IF spill.lts \in Range(@) THEN @
                                ELSE Append(@, spill.lts)]

hash_spill_finish(a, spill, setno, input_bits) ==
    IF spill.n_partitions = 0 THEN a
    ELSE [a EXCEPT !.hash_batches = @ \o SpillBatches(spill, setno, input_bits, 1, spill.n_partitions),
                   !.lts_list = IF spill.lts \in Range(@) THEN @
                                ELSE Append(@, spill.lts)]

\* LogicalTapeRewindForRead of the tapes of a finished spill
RewindTapes(tapesets, spill) ==
    IF spill.n_partitions = 0 THEN tapesets
    ELSE [tapesets EXCEPT ![spill.lts].tapes =
            [t \in DOMAIN @ |->
                IF (t - 1) \in Range(spill.partitions)
                THEN [@[t] EXCEPT !.rpos = 0] ELSE @[t]]]

(***************************************************************************)
(* Tuplesorts between the phases: the rows put in, whether performsort has *)
(* run, and the read position.  NoSort is the null pointer.                *)
(***************************************************************************)
NoSort == [active |-> FALSE, rows |-> <<>>, rpos |-> 0]

tuplesort_begin_heap == [active |-> TRUE, rows |-> <<>>, rpos |-> 0]

\* insert row into the sequence rows, sorted on grpColIdx, after its equals
RECURSIVE InsertSorted(_, _, _)
InsertSorted(rows, row, grpColIdx) ==
    IF rows = <<>> THEN <<row>>
    ELSE IF KeyLeq(KeyOf(Head(rows), grpColIdx), KeyOf(row, grpColIdx))
         THEN <<Head(rows)>> \o InsertSorted(Tail(rows), row, grpColIdx)
         ELSE <<row>> \o rows

RECURSIVE SortRows(_, _)
SortRows(rows, grpColIdx) ==
    IF rows = <<>> THEN <<>>
    ELSE InsertSorted(SortRows(SubSeq(rows, 1, Len(rows) - 1), grpColIdx),
                      rows[Len(rows)], grpColIdx)

tuplesort_performsort(ts, grpColIdx) ==
    [ts EXCEPT !.rows = SortRows(@, grpColIdx), !.rpos = 0]

(***************************************************************************)
(* The hash tables.  A table is the sequence of its entries in the order   *)
(* of the table walk; an entry holds the grouping key of its               *)
(* representative tuple and the group's transition state ("additional").   *)
(* NoTable is the null TupleHashTable pointer.  A pointer to the state of  *)
(* an entry (hash_pergroup[setno]) is the entry's index, 0 the null        *)
(* pointer.                                                                *)
(***************************************************************************)
NoTable == [alive |-> FALSE, ents |-> <<>>]

EmptyTable == [alive |-> TRUE, ents |-> <<>>]

FindEntry(ents, key) ==
    IF \E i \in DOMAIN ents : ents[i].key = key
    THEN CHOOSE i \in DOMAIN ents : ents[i].key = key
    ELSE 0

\* the number of entries of the first n tables
RECURSIVE SumLens(_, _)
SumLens(perhash, n) ==
    IF n = 0 THEN 0
    ELSE Len(perhash[n].hashtable.ents) + SumLens(perhash, n - 1)

\* MemoryContextMemAllocated(hashcontext): what the entries of all tables take
MemAllocated(p, perhash) == p.mem.entryBytes * SumLens(perhash, NumHashes(p))

\* hash_mem_current = MemoryContextMemAllocated(hashcontext)
UpdateMem(p, a) == [a EXCEPT !.hash_mem_current = MemAllocated(p, a.perhash)]

\* build_hash_table(aggstate, setno, ...): setno -1 builds all the tables
build_hash_table_keepflag(p, a, setno) ==
    UpdateMem(p, [a EXCEPT !.perhash =
                               [i \in 1..NumHashes(p) |->
                                   [@[i] EXCEPT !.hashtable =
                                       IF setno >= 0 /\ setno # i - 1 THEN NoTable
                                       ELSE EmptyTable]],
                           !.hash_ngroups_current = 0])

build_hash_table(p, a, setno) ==
    UpdateMem(p, [a EXCEPT !.perhash =
                               [i \in 1..NumHashes(p) |->
                                   [@[i] EXCEPT !.hashtable =
                                       IF setno >= 0 /\ setno # i - 1 THEN NoTable
                                       ELSE EmptyTable]],
                           !.hash_ngroups_current = 0,
                           !.hash_no_new_groups = FALSE])

\* initialize_phase
initialize_phase(p, a, newphase) ==
    [a EXCEPT !.sort_in = IF newphase <= 1 THEN NoSort
                          ELSE tuplesort_performsort(a.sort_out,
                                                     p.sorted[newphase].grpColIdx),
              !.sort_out = IF newphase > 0 /\ newphase < NumPhases(p) - 1
                           THEN tuplesort_begin_heap ELSE NoSort,
              !.current_phase = newphase]

select_current_set(a, setno) == [a EXCEPT !.current_set = setno]

\* ExecBuildAggTrans(aggstate, phase, dosort, dohash, spilled): the compiled
\* transition expression, for rows of the slot type outerops
ExecBuildAggTrans(dosort, dohash, spilled, outerops) ==
    [built |-> TRUE, dosort |-> dosort, dohash |-> dohash, spilled |-> spilled,
     ops |-> outerops]

NoExpr == [built |-> FALSE, dosort |-> FALSE, dohash |-> FALSE, spilled |-> FALSE,
           ops |-> "none"]

\* the expressions ExecInitAgg builds, one for each phase
InitEvalTrans(p, outerops) ==
    [ph \in 0..(NumPhases(p) - 1) |->
        IF ph = 0 /\ ~UseHashing(p) THEN NoExpr
        ELSE IF p.aggstrategy = AGG_MIXED /\ ph = 1
             THEN ExecBuildAggTrans(TRUE, TRUE, FALSE, outerops)
        ELSE IF p.aggstrategy = AGG_MIXED /\ ph = 0 THEN NoExpr
        ELSE IF PhaseStrategy(p, ph) \in {AGG_PLAIN, AGG_SORTED}
             THEN ExecBuildAggTrans(TRUE, FALSE, FALSE, outerops)
        ELSE ExecBuildAggTrans(FALSE, TRUE, FALSE, outerops)]

\* the limits ExecInitAgg sets
HashMemLimit(p) ==
    IF p.mem.hashagg_mem_overflow THEN -1
    ELSE IF p.mem.work_mem * 1024 > HASH_PARTITION_MEM * 2
         THEN p.mem.work_mem * 1024 - HASH_PARTITION_MEM
         ELSE p.mem.work_mem * 1024

HashNGroupsLimit(p) ==
    IF p.mem.hashagg_mem_overflow THEN -1
    ELSE IF HashMemLimit(p) > p.mem.hashentrysize
         THEN HashMemLimit(p) \div p.mem.hashentrysize
         ELSE 1

\* x > limit, where the limit -1 is SIZE_MAX or LONG_MAX
Exceeds(x, limit) == limit # -1 /\ x > limit

\* the AggState as ExecInitAgg allocates it
NewAggState(p) ==
    [ agg_done |-> FALSE, input_done |-> FALSE, projected_set |-> -1,
      current_set |-> 0, current_phase |-> 0,
      grp_firstTuple |-> NoRow, firstSlot |-> NoRow, outertuple |-> NoRow,
      sort_in |-> NoSort, sort_out |-> NoSort,
      outerops |-> "TTSOpsVirtual",
      pergroups |-> IF p.aggstrategy # AGG_HASHED
                    THEN [i \in 1..MaxSets(p) |-> InitPG] ELSE <<>>,
      perhash |-> [i \in 1..NumHashes(p) |-> [hashtable |-> NoTable, hashiter |-> 0]],
      hash_pergroup |-> [i \in 1..NumHashes(p) |-> 0],
      hashentrysize |-> p.mem.hashentrysize,
      hash_mem_limit |-> HashMemLimit(p),
      hash_ngroups_limit |-> HashNGroupsLimit(p),
      hash_mem_current |-> 0, hash_ngroups_current |-> 0,
      hash_no_new_groups |-> FALSE, hash_spilled |-> FALSE,
      hash_spills |-> <<>>, hash_batches |-> <<>>, lts_list |-> <<>>,
      batch |-> hash_batch_new(0, 0, 0, 0, 0),
      table_filled |-> FALSE,
      evaltrans |-> InitEvalTrans(p, "TTSOpsVirtual"),
      numSortCols |-> 0,
      sortstates |-> IF p.aggstrategy # AGG_HASHED
                     THEN [i \in 1..MaxSets(p) |-> NoSort] ELSE <<>>,
      fault |-> FALSE ]

\* the AggState ExecInitAgg returns
ExecInitAgg(p) ==
    select_current_set(
        initialize_phase(p,
            IF UseHashing(p) THEN build_hash_table(p, NewAggState(p), -1)
            ELSE NewAggState(p),
            IF p.aggstrategy = AGG_HASHED THEN 0 ELSE 1),
        0)

(***************************************************************************)
(* The operations below work on a "world" w: the AggState w.a, the tape    *)
(* sets w.t, the number w.cp of calls of the child made so far and the     *)
(* slot w.slot the last fetch returned.  A null pointer dereference sets   *)
(* w.a.fault: the backend crashes.                                         *)
(***************************************************************************)
World == [a |-> agg, t |-> lts, cp |-> childPos, slot |-> NoRow]

Fault(a) == [a EXCEPT !.fault = TRUE]

\* fetch_input_tuple: the slot returned is w.slot
fetch_input_tuple_nocopy(w) ==
    IF w.a.sort_in.active
    THEN IF w.a.sort_in.rpos < Len(w.a.sort_in.rows)
         THEN [w EXCEPT !.slot = w.a.sort_in.rows[w.a.sort_in.rpos + 1],
                        !.a.sort_in.rpos = @ + 1,
                        !.a.sort_out.rows =
                            IF w.a.sort_out.active
                            THEN Append(@, w.a.sort_in.rows[w.a.sort_in.rpos + 1])
                            ELSE @]
         ELSE [w EXCEPT !.slot = NoRow]
    ELSE IF w.cp < Len(input)
         THEN [w EXCEPT !.slot = ChildRow(w.cp + 1),
                        !.cp = @ + 1,
                        !.a.sort_out.rows =
                            IF w.a.sort_out.active /\ w.cp = 0
                            THEN Append(@, ChildRow(w.cp + 1))
                            ELSE @]
         ELSE [w EXCEPT !.slot = NoRow, !.cp = @ + 1]

fetch_input_tuple(w) ==
    IF w.a.sort_in.active
    THEN IF w.a.sort_in.rpos < Len(w.a.sort_in.rows)
         THEN [w EXCEPT !.slot = w.a.sort_in.rows[w.a.sort_in.rpos + 1],
                        !.a.sort_in.rpos = @ + 1,
                        !.a.sort_out.rows =
                            IF w.a.sort_out.active
                            THEN Append(@, w.a.sort_in.rows[w.a.sort_in.rpos + 1])
                            ELSE @]
         ELSE [w EXCEPT !.slot = NoRow]
    ELSE IF w.cp < Len(input)
         THEN [w EXCEPT !.slot = ChildRow(w.cp + 1),
                        !.cp = @ + 1,
                        !.a.sort_out.rows =
                            IF w.a.sort_out.active THEN Append(@, ChildRow(w.cp + 1))
                            ELSE @]
         ELSE [w EXCEPT !.slot = NoRow, !.cp = @ + 1]

hash_recompile_expressions(p, a) ==
    [a EXCEPT !.evaltrans[IF p.aggstrategy = AGG_HASHED THEN 0 ELSE 1] =
        ExecBuildAggTrans(p.aggstrategy = AGG_MIXED, TRUE, a.hash_spilled, a.outerops)]

hash_check_limits_bytes(p, a) ==
    IF a.hash_ngroups_current > 0 /\ Exceeds(a.hash_mem_current, a.hash_mem_limit)
    THEN IF a.hash_spilled
         THEN [a EXCEPT !.hash_no_new_groups = TRUE]
         ELSE hash_recompile_expressions(p,
                  [a EXCEPT !.hash_no_new_groups = TRUE,
                            !.hash_spilled = TRUE,
                            !.hash_spills = [i \in 1..NumHashes(p) |-> NoSpill]])
    ELSE a

\* lookup_hash_entry after a new entry was made: the limits
hash_check_limits(p, a) ==
    IF /\ a.hash_ngroups_current > 0
       /\ \/ Exceeds(a.hash_mem_current, a.hash_mem_limit)
          \/ Exceeds(a.hash_ngroups_current, a.hash_ngroups_limit)
    THEN IF a.hash_spilled
         THEN [a EXCEPT !.hash_no_new_groups = TRUE]
         ELSE hash_recompile_expressions(p,
                  [a EXCEPT !.hash_no_new_groups = TRUE,
                            !.hash_spilled = TRUE,
                            !.hash_spills = [i \in 1..NumHashes(p) |-> NoSpill]])
    ELSE a

\* the pointer to the state of the last entry of the table of the current set
LastEntry(a) ==
    [a |-> a, pergroup |-> Len(a.perhash[a.current_set + 1].hashtable.ents)]

lookup_hash_entry_creating(p, a, key) ==
    IF FindEntry(a.perhash[a.current_set + 1].hashtable.ents, key) # 0
    THEN [a |-> a,
          pergroup |-> FindEntry(a.perhash[a.current_set + 1].hashtable.ents, key)]
    ELSE LastEntry(hash_check_limits(p, UpdateMem(p,
             [a EXCEPT !.perhash[a.current_set + 1].hashtable.ents =
                           Append(@, [key |-> key, additional |-> InitPG]),
                       !.hash_ngroups_current = @ + 1])))

\* lookup_hash_entry for the key of the current tuple in the table of
\* a.current_set: the AggState afterwards and the pergroup pointer returned
lookup_hash_entry(p, a, key) ==
    LET ents == a.perhash[a.current_set + 1].hashtable.ents
    IN IF ~a.perhash[a.current_set + 1].hashtable.alive
       THEN [a |-> Fault(a), pergroup |-> 0]
       ELSE IF FindEntry(ents, key) # 0 THEN [a |-> a, pergroup |-> FindEntry(ents, key)]
       ELSE IF a.hash_no_new_groups THEN [a |-> a, pergroup |-> 0]
       ELSE LastEntry(hash_check_limits(p, UpdateMem(p,
                [a EXCEPT !.perhash[a.current_set + 1].hashtable.ents =
                              Append(@, [key |-> key, additional |-> InitPG]),
                          !.hash_ngroups_current = @ + 1])))

\* hash_pergroup[setno] = lookup_hash_entry(...), r being what it returned
SetPergroup(r, setno) == [r.a EXCEPT !.hash_pergroup[setno + 1] = r.pergroup]

\* the tuple lookup_hash_entries writes for a row: the columns the grouping
\* set does not need are null
SpillTuple(p, row, setno) ==
    [id |-> row.id,
     c |-> [i \in 1..2 |-> IF i \in Range(p.hashes[setno + 1]) THEN row.c[i] ELSE 0]]

\* aggstate->hash_spills[setno] and the tape sets after a tuple was spilled
StoreSpill(w, setno, sw) ==
    [w EXCEPT !.a.hash_spills[setno + 1] = sw.spill, !.t = sw.lts]

\* lookup_hash_entries for the set setno, after its lookup
lookup_hash_spill(p, w, setno) ==
    IF w.a.hash_pergroup[setno + 1] # 0 \/ w.a.fault THEN w
    ELSE IF w.a.hash_spills = <<>> THEN [w EXCEPT !.a = Fault(w.a)]
    ELSE StoreSpill(w, setno,
            hash_spill_tuple(
                IF w.a.hash_spills[setno + 1].partitions = <<>>
                THEN hash_spill_init([spill |-> w.a.hash_spills[setno + 1], lts |-> w.t],
                                     p.mem.work_mem, 0, p.numGroups, w.a.hashentrysize)
                ELSE [spill |-> w.a.hash_spills[setno + 1], lts |-> w.t],
                0, SpillTuple(p, w.a.outertuple, setno),
                calculate_hash(KeyOf(w.a.outertuple, p.hashes[setno + 1]),
                               p.hashes[setno + 1])))

\* lookup_hash_entries, for the grouping sets setno.. of phase 0
RECURSIVE LookupFrom(_, _, _)
LookupFrom(p, w, setno) ==
    IF setno >= NumHashes(p) THEN w
    ELSE LookupFrom(p,
            lookup_hash_spill(p,
                [w EXCEPT !.a = SetPergroup(
                    lookup_hash_entry(p, select_current_set(w.a, setno),
                                      KeyOf(w.a.outertuple, p.hashes[setno + 1])),
                    setno)],
                setno),
            setno + 1)

\* lookup_hash_entries, for the tuple in tmpcontext's outer tuple slot
lookup_hash_entries(p, w) == LookupFrom(p, w, 0)

\* advance_aggregates: the transition expression of the current phase,
\* applied to the tuple in tmpcontext's outer tuple slot.  Compiled with
\* "spilled" it skips a grouping set whose pergroup pointer is null.
advance_aggregates(p, a) ==
    LET ev == a.evaltrans[a.current_phase]
        nsets == Max(PhaseNumSets(p, a.current_phase), 1)
    IN IF \/ ~ev.built
          \/ /\ ~ev.spilled
             /\ \/ ev.dosort /\ \E i \in 1..nsets : a.pergroups[i] = NullPG
                \/ ev.dohash /\ \E i \in 1..NumHashes(p) : a.hash_pergroup[i] = 0
       THEN Fault(a)
       ELSE [a EXCEPT
               !.pergroups =
                   IF ev.dosort /\ a.numSortCols = 0
                   THEN [i \in DOMAIN @ |->
                            IF i <= nsets /\ @[i] # NullPG
                            THEN TransFn(@[i], a.outertuple)
                            ELSE @[i]]
                   ELSE @,
               !.sortstates =
                   IF ev.dosort /\ a.numSortCols > 0
                   THEN [i \in DOMAIN @ |->
                            IF i <= nsets
                            THEN [@[i] EXCEPT !.rows = Append(@, a.outertuple)]
                            ELSE @[i]]
                   ELSE @,
               !.perhash =
                   IF ev.dohash
                   THEN [i \in DOMAIN @ |->
                            IF a.hash_pergroup[i] # 0
                            THEN [@[i] EXCEPT
                                    !.hashtable.ents[a.hash_pergroup[i]].additional =
                                        TransFn(@, a.outertuple)]
                            ELSE @[i]]
                   ELSE @]

\* hash_spill_finish for the spills of the sets setno.. (hash_finish_initial_spills)
RECURSIVE FinishSpillsFrom(_, _, _)
FinishSpillsFrom(p, w, setno) ==
    IF setno >= NumHashes(p) THEN w
    ELSE FinishSpillsFrom(p,
            [w EXCEPT !.a = hash_spill_finish(w.a, w.a.hash_spills[setno + 1], setno, 0),
                      !.t = RewindTapes(w.t, w.a.hash_spills[setno + 1])],
            setno + 1)

hash_finish_initial_spills(p, w) ==
    IF w.a.hash_spills = <<>> THEN w
    ELSE [FinishSpillsFrom(p,
              [w EXCEPT !.a.hashentrysize =
                  w.a.hash_mem_current \div w.a.hash_ngroups_current], 0)
          EXCEPT !.a.hash_spills = <<>>]

\* ResetTupleHashIterator(perhash[setno].hashtable, &perhash[setno].hashiter)
ResetTupleHashIterator(a, setno) ==
    IF ~a.perhash[setno + 1].hashtable.alive THEN Fault(a)
    ELSE [a EXCEPT !.perhash[setno + 1].hashiter = 0]

(***************************************************************************)
(* Finalizing and projecting a group.  A result row holds the phase and    *)
(* the grouping set it is of, the grouping columns (null: 0) and the value *)
(* of the aggregate: the ids absorbed and the number of transitions.       *)
(***************************************************************************)
\* an all-null tuple in a slot (the slot is not empty)
AllNullRow == [id |-> -1, c |-> <<0, 0>>]

\* phase->grouped_cols[setno], and whether the phase has grouped_cols at all
HasGroupedCols(p, ph) == ph = 0 \/ Len(p.sorted[ph].gsets) > 0

GroupedCols(p, ph, setno) ==
    IF ph = 0 THEN Range(p.hashes[setno + 1])
    ELSE {p.sorted[ph].grpColIdx[j] : j \in 1..p.sorted[ph].gsets[setno + 1]}

\* the columns the target list and the qual can refer to
TlistCols(p) ==
    UNION ({Range(p.hashes[i]) : i \in DOMAIN p.hashes}
           \cup {Range(p.sorted[i].grpColIdx) : i \in DOMAIN p.sorted})

\* prepare_projection_slot: the slot afterwards
prepare_projection_slot(p, a, slot, currentSet) ==
    IF ~HasGroupedCols(p, a.current_phase) THEN slot
    ELSE IF TupIsNull(slot) THEN AllNullRow
    ELSE [slot EXCEPT !.c = [i \in 1..2 |->
            IF i \in GroupedCols(p, a.current_phase, currentSet) THEN @[i] ELSE 0]]

ExecQual_true(p, pergroup) == TRUE

\* ExecQual(aggstate->ss.ps.qual): HAVING count >= having
ExecQual(p, pergroup) == pergroup.n >= p.having

\* ExecProject: the result row of the group pergroup of the current set
ExecProject(p, a, pergroup) ==
    [phase |-> a.current_phase, set |-> a.current_set,
     c |-> [i \in 1..2 |-> IF i \in TlistCols(p) THEN a.firstSlot.c[i] ELSE 0],
     rows |-> pergroup.rows, n |-> pergroup.n]

\* the outcome of a step: the world, where the call goes on ("idle": it
\* returns), the groups finalized and the row returned, if any
Res(w, nextpc, fins, emits) == [w |-> w, pc |-> nextpc, fin |-> fins, emit |-> emits]

\* finalize_aggregates and project_aggregates for the group pergroup;
\* contpc is where the loop goes on when the qual fails
finalize_aggregates(p, w, pergroup, contpc) ==
    IF pergroup = NullPG THEN Res([w EXCEPT !.a = Fault(w.a)], contpc, <<>>, <<>>)
    ELSE IF ExecQual(p, pergroup)
    THEN Res(w, "idle", <<ExecProject(p, w.a, pergroup)>>,
             <<ExecProject(p, w.a, pergroup)>>)
    ELSE Res(w, contpc, <<ExecProject(p, w.a, pergroup)>>, <<>>)

\* prepare_projection_slot on the scan tuple slot and select_current_set,
\* then finalize_aggregates and project_aggregates
project_aggregates(p, w, currentSet, pergroup, contpc) ==
    finalize_aggregates(p,
        [w EXCEPT !.a = select_current_set(
            [w.a EXCEPT !.firstSlot =
                prepare_projection_slot(p, w.a, w.a.firstSlot, currentSet)],
            currentSet)],
        pergroup, contpc)

\* advance_aggregates on the world; the loop goes on at nextpc
Advance(p, w, nextpc) ==
    Res([w EXCEPT !.a = advance_aggregates(p, w.a)], nextpc, <<>>, <<>>)

(***************************************************************************)
(* The hashed path.                                                        *)
(***************************************************************************)
FillDone_unfilled(w) ==
    Res([w EXCEPT !.a = ResetTupleHashIterator(select_current_set(w.a, 0), 0)],
        "retrieve", <<>>, <<>>)

\* agg_fill_hash_table after its loop, the spills being finished
FillDone(w) ==
    Res([w EXCEPT !.a = ResetTupleHashIterator(
                            select_current_set([w.a EXCEPT !.table_filled = TRUE], 0),
                            0)],
        "retrieve", <<>>, <<>>)

\* agg_fill_hash_table with the tuple fetched in w.slot
FillTuple(p, w) ==
    IF TupIsNull(w.slot) THEN FillDone(hash_finish_initial_spills(p, w))
    ELSE Advance(p, lookup_hash_entries(p, [w EXCEPT !.a.outertuple = w.slot]), "fill")

\* one turn of the loop of agg_fill_hash_table, and what follows the loop
agg_fill_hash_table(p, w) == FillTuple(p, fetch_input_tuple(w))

\* agg_refill_hash_table: the phase the batch is read in
RefillPhase(p, a) ==
    IF PhaseStrategy(p, a.current_phase) = AGG_MIXED
    THEN [a EXCEPT !.current_phase = 1] ELSE a

\* agg_refill_hash_table: the expression is compiled for minimal tuples
RefillOps(p, a) ==
    IF a.outerops # "TTSOpsMinimalTuple"
    THEN hash_recompile_expressions(p, [a EXCEPT !.outerops = "TTSOpsMinimalTuple"])
    ELSE a

\* the head of agg_refill_hash_table, up to its loop (a batch is there)
agg_refill_hash_table(p, w) ==
    Res([w EXCEPT !.a =
            RefillOps(p, RefillPhase(p,
                build_hash_table(p,
                    [w.a EXCEPT !.pergroups = [i \in DOMAIN @ |-> NullPG],
                                !.hash_pergroup = [i \in DOMAIN @ |-> 0],
                                !.batch = Head(w.a.hash_batches),
                                !.hash_batches = Tail(@)],
                    Head(w.a.hash_batches).setno)))],
        "refill", <<>>, <<>>)

\* hash_read_spilled: the next tuple of the tape, NoRow at its end
hash_read_spilled(tapesets, ltsid, tapenum) ==
    LET tape == tapesets[ltsid].tapes[tapenum + 1]
    IN IF tape.rpos < Len(tape.data) THEN tape.data[tape.rpos + 1]
       ELSE [hash |-> {}, tuple |-> NoRow]

\* batch->spill and the tape sets after a tuple was spilled again
StoreBatchSpill(w, sw) == [w EXCEPT !.a.batch.spill = sw.spill, !.t = sw.lts]

\* agg_refill_hash_table for the tuple rd, after its lookup
RefillSpill(p, w, rd) ==
    IF w.a.hash_pergroup[w.a.batch.setno + 1] # 0 \/ w.a.fault THEN w
    ELSE StoreBatchSpill(w,
            hash_spill_tuple(
                IF w.a.batch.spill.partitions = <<>>
                THEN hash_spill_init([spill |-> w.a.batch.spill, lts |-> w.t],
                                     p.mem.work_mem, w.a.batch.input_bits,
                                     w.a.batch.input_tuples, w.a.hashentrysize)
                ELSE [spill |-> w.a.batch.spill, lts |-> w.t],
                w.a.batch.input_bits, rd.tuple, rd.hash))

\* agg_refill_hash_table after its loop
RefillDone(p, w) ==
    Res([w EXCEPT
            !.a = ResetTupleHashIterator(
                      select_current_set(
                          hash_spill_finish(
                              [w.a EXCEPT !.current_phase = 0,
                                          !.hashentrysize =
                                              IF w.a.hash_ngroups_current > 0
                                              THEN w.a.hash_mem_current
                                                       \div w.a.hash_ngroups_current
                                              ELSE @],
                              w.a.batch.spill, w.a.batch.setno, w.a.batch.input_bits),
                          0),
                      0),
            !.t = RewindTapes(w.t, w.a.batch.spill)],
        "retrieve", <<>>, <<>>)

\* agg_refill_hash_table with the tuple rd read from the batch's tape
RefillTuple(p, w, rd) ==
    IF TupIsNull(rd.tuple) THEN RefillDone(p, w)
    ELSE Advance(p,
            RefillSpill(p,
                [w EXCEPT
                    !.t[w.a.batch.lts].tapes[w.a.batch.input_tape + 1].rpos = @ + 1,
                    !.a = SetPergroup(
                              lookup_hash_entry(p,
                                  select_current_set([w.a EXCEPT !.outertuple = rd.tuple],
                                                     w.a.batch.setno),
                                  KeyOf(rd.tuple, p.hashes[w.a.batch.setno + 1])),
                              w.a.batch.setno)],
                rd),
            "refill")

\* one turn of the loop of agg_refill_hash_table, and what follows the loop
agg_refill_step(p, w) ==
    IF w.t[w.a.batch.lts].closed > 0
    THEN Res([w EXCEPT !.a = Fault(w.a)], "refill", <<>>, <<>>)
    ELSE RefillTuple(p, w, hash_read_spilled(w.t, w.a.batch.lts, w.a.batch.input_tape))

\* the scan tuple slot agg_retrieve_hash_table_in_memory makes of an entry
EntrySlot(p, setno, entry) ==
    [id |-> -1,
     c |-> [i \in 1..2 |->
              IF \E j \in DOMAIN p.hashes[setno + 1] : p.hashes[setno + 1][j] = i
              THEN entry.key[CHOOSE j \in DOMAIN p.hashes[setno + 1] :
                                 p.hashes[setno + 1][j] = i]
              ELSE 0]]

\* one turn of the loop of agg_retrieve_hash_table_in_memory; when the
\* tables are exhausted, what agg_retrieve_hash_table does next
agg_retrieve_hash_table(p, w) ==
    LET perhash == w.a.perhash[w.a.current_set + 1]
    IN IF ~perhash.hashtable.alive
       THEN Res([w EXCEPT !.a = Fault(w.a)], "retrieve", <<>>, <<>>)
       ELSE IF perhash.hashiter < Len(perhash.hashtable.ents)
       THEN project_aggregates(p,
                [w EXCEPT !.a.perhash[w.a.current_set + 1].hashiter = @ + 1,
                          !.a.firstSlot =
                              EntrySlot(p, w.a.current_set,
                                        perhash.hashtable.ents[perhash.hashiter + 1])],
                w.a.current_set,
                perhash.hashtable.ents[perhash.hashiter + 1].additional,
                "retrieve")
       ELSE IF w.a.current_set + 1 < NumHashes(p)
       THEN Res([w EXCEPT !.a = ResetTupleHashIterator(
                                    select_current_set(w.a, w.a.current_set + 1),
                                    w.a.current_set + 1)],
                "retrieve", <<>>, <<>>)
       ELSE IF w.a.hash_batches = <<>>
       THEN Res([w EXCEPT !.a.agg_done = TRUE], "idle", <<>>, <<>>)
       ELSE agg_refill_hash_table(p, w)

(***************************************************************************)
(* The sorted path: agg_retrieve_direct.                                   *)
(***************************************************************************)
\* numGroupingSets = Max(aggstate->phase->numsets, 1)
NumGroupingSets(p, a) == Max(PhaseNumSets(p, a.current_phase), 1)

initialize_aggregates_all(a, numReset0, numGroupingSets) ==
    IF \E i \in 1..numGroupingSets : a.pergroups[i] = NullPG THEN Fault(a)
    ELSE [a EXCEPT !.pergroups = [i \in DOMAIN @ |-> InitPG],
                   !.sortstates = IF a.numSortCols > 0
                                  THEN [i \in DOMAIN @ |-> tuplesort_begin_heap]
                                  ELSE @,
                   !.current_set = numGroupingSets - 1]

\* initialize_aggregates: pergroups[0 .. numReset-1] get the initial state;
\* initialize_aggregate ends the sort of the set that is still open, if
\* any, and begins one
initialize_aggregates(a, numReset0, numGroupingSets) ==
    LET numReset == IF numReset0 = 0 THEN numGroupingSets ELSE numReset0
    IN IF \E i \in 1..numReset : a.pergroups[i] = NullPG THEN Fault(a)
       ELSE [a EXCEPT !.pergroups = [i \in DOMAIN @ |->
                                        IF i <= numReset THEN InitPG ELSE @[i]],
                      !.sortstates = IF a.numSortCols > 0
                                     THEN [i \in DOMAIN @ |->
                                              IF i <= numReset THEN tuplesort_begin_heap
                                              ELSE @[i]]
                                     ELSE @,
                      !.current_set = numReset - 1]

ExecQualEq_first(slot1, slot2, n, grpColIdx) ==
    slot1.c[grpColIdx[1]] = slot2.c[grpColIdx[1]]

\* phase->eqfunctions[n - 1]: the first n grouping columns are equal
ExecQualEq(slot1, slot2, n, grpColIdx) ==
    \A j \in 1..n : slot1.c[grpColIdx[j]] = slot2.c[grpColIdx[j]]

EmptySkip_none(gsets, i) == i

\* with no input at all: the first grouping set from i on of size 0
RECURSIVE EmptySkip(_, _)
EmptySkip(gsets, i) ==
    IF i >= Len(gsets) THEN i
    ELSE IF gsets[i + 1] > 0 THEN EmptySkip(gsets, i + 1) ELSE i

\* the transition function run over the rows i.. of a sorted buffer
RECURSIVE OrderedTrans(_, _, _)
OrderedTrans(pg, sorted, i) ==
    IF i > Len(sorted) THEN pg
    ELSE OrderedTrans(TransFn(pg, sorted[i]), sorted, i + 1)

\* finalize_aggregates for an ORDER BY aggregate: process_ordered_aggregate_*
\* sorts the inputs of the group of set setno on the ORDER BY column, runs
\* the transition function over them and ends the sort
process_ordered_aggregates(a, setno) ==
    IF a.numSortCols = 0 \/ a.pergroups[setno + 1] = NullPG THEN a
    ELSE [a EXCEPT !.pergroups[setno + 1] =
                       OrderedTrans(@, SortRows(a.sortstates[setno + 1].rows, <<2>>), 1),
                   !.sortstates[setno + 1] = NoSort]

DirectProject_onemit(p, w) ==
    project_aggregates(p,
        IF ExecQual(p, process_ordered_aggregates(w.a, w.a.projected_set)
                           .pergroups[w.a.projected_set + 1])
        THEN [w EXCEPT !.a = process_ordered_aggregates(w.a, w.a.projected_set)]
        ELSE [w EXCEPT !.a.pergroups[w.a.projected_set + 1] =
                           process_ordered_aggregates(w.a, w.a.projected_set)
                               .pergroups[w.a.projected_set + 1]],
        w.a.projected_set,
        process_ordered_aggregates(w.a, w.a.projected_set)
            .pergroups[w.a.projected_set + 1],
        "direct")

\* the end of the loop of agg_retrieve_direct: the group of projected_set
DirectProject(p, w) ==
    project_aggregates(p,
        [w EXCEPT !.a = process_ordered_aggregates(w.a, w.a.projected_set)],
        w.a.projected_set,
        process_ordered_aggregates(w.a, w.a.projected_set)
            .pergroups[w.a.projected_set + 1],
        "direct")

\* no input at all and grouping sets: projected_set is the first set of
\* size 0, if any
DirectEmptySets(p, w, numGroupingSets, numReset) ==
    IF w.a.projected_set >= numGroupingSets THEN Res(w, "direct", <<>>, <<>>)
    ELSE DirectProject(p, [w EXCEPT !.a = initialize_aggregates(w.a, numReset,
                                                               numGroupingSets)])

\* a new group starts, its first tuple, if any, being in w.slot
DirectFirst(p, w, numGroupingSets, numReset) ==
    IF ~TupIsNull(w.slot)
    THEN Res([w EXCEPT !.a = [initialize_aggregates(w.a, numReset, numGroupingSets)
                                EXCEPT !.firstSlot = w.slot,
                                       !.grp_firstTuple = NoRow,
                                       !.outertuple = w.slot]],
             "accum", <<>>, <<>>)
    ELSE IF Len(p.sorted[w.a.current_phase].gsets) > 0
    THEN DirectEmptySets(p,
            [w EXCEPT !.a.input_done = TRUE,
                      !.a.projected_set =
                          EmptySkip(p.sorted[w.a.current_phase].gsets, 0)],
            numGroupingSets, numReset)
    ELSE IF p.sorted[w.a.current_phase].aggstrategy # AGG_PLAIN
    THEN Res([w EXCEPT !.a.agg_done = TRUE], "idle", <<>>, <<>>)
    ELSE DirectProject(p,
            [w EXCEPT !.a = initialize_aggregates([w.a EXCEPT !.agg_done = TRUE],
                                                  numReset, numGroupingSets)])

\* the else branch of the loop of agg_retrieve_direct: a new group starts
DirectNewGroup(p, w, numGroupingSets, numReset) ==
    IF ~TupIsNull(w.a.grp_firstTuple)
    THEN DirectFirst(p, [w EXCEPT !.slot = w.a.grp_firstTuple],
                     numGroupingSets, numReset)
    ELSE DirectFirst(p, fetch_input_tuple(w), numGroupingSets, numReset)

DirectGroup_eager(p, w, numGroupingSets, numReset) ==
    LET a == w.a
        ph == p.sorted[a.current_phase]
        nextSetSize == IF a.projected_set >= 0 /\ a.projected_set < numGroupingSets - 1
                       THEN ph.gsets[a.projected_set + 2] ELSE 0
    IN IF \/ a.input_done
          \/ /\ ph.aggstrategy # AGG_PLAIN
             /\ a.projected_set # -1
             /\ a.projected_set < numGroupingSets - 1
             /\ nextSetSize > 0
       THEN DirectProject(p, [w EXCEPT !.a.projected_set = @ + 1])
       ELSE DirectNewGroup(p, [w EXCEPT !.a.projected_set = 0],
                           numGroupingSets, numReset)

\* the boundary test of the loop of agg_retrieve_direct
DirectGroup(p, w, numGroupingSets, numReset) ==
    LET a == w.a
        ph == p.sorted[a.current_phase]
        nextSetSize == IF a.projected_set >= 0 /\ a.projected_set < numGroupingSets - 1
                       THEN ph.gsets[a.projected_set + 2] ELSE 0
    IN IF \/ a.input_done
          \/ /\ ph.aggstrategy # AGG_PLAIN
             /\ a.projected_set # -1
             /\ a.projected_set < numGroupingSets - 1
             /\ nextSetSize > 0
             /\ ~ExecQualEq(a.firstSlot, a.outertuple, nextSetSize, ph.grpColIdx)
       THEN DirectProject(p, [w EXCEPT !.a.projected_set = @ + 1])
       ELSE DirectNewGroup(p, [w EXCEPT !.a.projected_set = 0],
                           numGroupingSets, numReset)

\* agg_retrieve_direct after it moved to the next phase
DirectNextPhase(p, w) ==
    DirectGroup(p, w, NumGroupingSets(p, w.a), NumGroupingSets(p, w.a))

\* one turn of the loop of agg_retrieve_direct, up to its inner loop
agg_retrieve_direct(p, w) ==
    LET a == w.a
        nGS == NumGroupingSets(p, a)
    IN IF a.agg_done THEN Res(w, "idle", <<>>, <<>>)
       ELSE IF a.input_done /\ a.projected_set >= nGS - 1
       THEN IF a.current_phase < NumPhases(p) - 1
            THEN DirectNextPhase(p,
                    [w EXCEPT !.a = [initialize_phase(p, a, a.current_phase + 1)
                                       EXCEPT !.input_done = FALSE,
                                              !.projected_set = -1]])
            ELSE IF p.aggstrategy = AGG_MIXED
            THEN Res([w EXCEPT !.a = select_current_set(
                                         ResetTupleHashIterator(
                                             [initialize_phase(p, a, 0)
                                                 EXCEPT !.table_filled = TRUE], 0),
                                         0)],
                     "retrieve", <<>>, <<>>)
            ELSE Res([w EXCEPT !.a.agg_done = TRUE], "idle", <<>>, <<>>)
       ELSE DirectGroup(p, w, nGS,
                        IF a.projected_set >= 0 /\ a.projected_set < nGS
                        THEN a.projected_set + 1 ELSE nGS)

\* lookup_hash_entries during phase 1 of a mixed aggregation
MixedLookup(p, w) ==
    IF p.aggstrategy = AGG_MIXED /\ w.a.current_phase = 1
    THEN lookup_hash_entries(p, w) ELSE w

MixedFinish_skip(p, w) == w

\* hash_finish_initial_spills at the end of phase 1 of a mixed aggregation
MixedFinish(p, w) ==
    IF p.aggstrategy = AGG_MIXED /\ w.a.current_phase = 1
    THEN hash_finish_initial_spills(p, w) ELSE w

\* the inner loop of agg_retrieve_direct when the input has ended
GroupInputEnd(p, w) ==
    DirectProject(p,
        IF Len(p.sorted[w.a.current_phase].gsets) > 0
        THEN [w EXCEPT !.a.input_done = TRUE]
        ELSE [w EXCEPT !.a.agg_done = TRUE])

\* the inner loop of agg_retrieve_direct with the tuple fetched in w.slot
GroupTuple(p, w) ==
    LET ph == p.sorted[w.a.current_phase]
    IN IF TupIsNull(w.slot) THEN GroupInputEnd(p, MixedFinish(p, w))
       ELSE IF /\ ph.aggstrategy # AGG_PLAIN
               /\ ~ExecQualEq(w.a.firstSlot, w.slot, Len(ph.grpColIdx), ph.grpColIdx)
       THEN DirectProject(p, [w EXCEPT !.a.outertuple = w.slot,
                                       !.a.grp_firstTuple = w.slot])
       ELSE Res([w EXCEPT !.a.outertuple = w.slot], "accum", <<>>, <<>>)

\* one turn of the inner loop of agg_retrieve_direct; when the group ends,
\* the projection that follows the loop
agg_retrieve_direct_group(p, w) ==
    GroupTuple(p,
        fetch_input_tuple([MixedLookup(p, w) EXCEPT
                              !.a = advance_aggregates(p, MixedLookup(p, w).a)]))

(***************************************************************************)
(* The transition state of one aggregate in one group, and the calls of    *)
(* its transition function.  A Datum is a value and a null flag; the value *)
(* of a null Datum is 0.  The transition function is any function: what it *)
(* returns when it is invoked is an input of the step.                     *)
(***************************************************************************)
NullDatum == [value |-> 0, isnull |-> TRUE]

Datums == {[value |-> v, isnull |-> FALSE] : v \in 0..MaxDatum} \cup {NullDatum}

\* pertrans->numTransInputs
NumTransInputs == {1, 2}

PerTransSet ==
    {[fn_strict |-> s, numTransInputs |-> n,
      initValue |-> d.value, initValueIsNull |-> d.isnull] :
        s \in BOOLEAN, n \in NumTransInputs, d \in Datums}

\* the aggregate of the plans above: not strict, one input, initial value 0
CountPerTrans ==
    [fn_strict |-> FALSE, numTransInputs |-> 1,
     initValue |-> 0, initValueIsNull |-> FALSE]

\* fcinfo with no argument loaded: arg0 is args[0], args are args[1..]
NoFcinfo == [arg0 |-> NullDatum, args |-> <<>>, isnull |-> FALSE]

initialize_aggregate_novalue(pt) ==
    [transValue |-> pt.initValue,
     transValueIsNull |-> pt.initValueIsNull,
     noTransValue |-> FALSE]

\* initialize_aggregate: the transition state of a new group
initialize_aggregate(pt) ==
    [transValue |-> pt.initValue,
     transValueIsNull |-> pt.initValueIsNull,
     noTransValue |-> pt.initValueIsNull]

\* the outcome of advance_transition_function
AdvResult(pg, fc, called) == [pergroupstate |-> pg, fcinfo |-> fc, called |-> called]

InvokeTransfn_unset(pg, fc, ret) ==
    AdvResult([pg EXCEPT !.transValue = ret.value, !.transValueIsNull = ret.isnull,
                         !.noTransValue = TRUE],
              [fc EXCEPT !.arg0 = [value |-> pg.transValue,
                                   isnull |-> pg.transValueIsNull],
                         !.isnull = ret.isnull],
              TRUE)

\* advance_transition_function from "OK to call the transition function"
\* on: the function is invoked and returns ret
InvokeTransfn(pg, fc, ret) ==
    AdvResult([pg EXCEPT !.transValue = ret.value, !.transValueIsNull = ret.isnull],
              [fc EXCEPT !.arg0 = [value |-> pg.transValue,
                                   isnull |-> pg.transValueIsNull],
                         !.isnull = ret.isnull],
              TRUE)

advance_transition_function_keepflag(pt, pg, fc, ret) ==
    IF pt.fn_strict
    THEN IF \E i \in 1..pt.numTransInputs : fc.args[i].isnull
         THEN AdvResult(pg, fc, FALSE)
         ELSE IF pg.noTransValue
         THEN AdvResult([pg EXCEPT !.transValue = fc.args[1].value,
                                   !.transValueIsNull = FALSE], fc, FALSE)
         ELSE IF pg.transValueIsNull THEN AdvResult(pg, fc, FALSE)
         ELSE InvokeTransfn(pg, fc, ret)
    ELSE InvokeTransfn(pg, fc, ret)

advance_transition_function_unchecked(pt, pg, fc, ret) ==
    IF pt.fn_strict /\ pg.noTransValue
    THEN AdvResult([pg EXCEPT !.transValue = fc.args[1].value,
                              !.transValueIsNull = FALSE,
                              !.noTransValue = FALSE], fc, FALSE)
    ELSE IF pt.fn_strict /\ pg.transValueIsNull THEN AdvResult(pg, fc, FALSE)
    ELSE InvokeTransfn(pg, fc, ret)

\* advance_transition_function, the arguments being loaded in fc.args
advance_transition_function(pt, pg, fc, ret) ==
    IF pt.fn_strict
    THEN IF \E i \in 1..pt.numTransInputs : fc.args[i].isnull
         THEN AdvResult(pg, fc, FALSE)
         ELSE IF pg.noTransValue
         THEN AdvResult([pg EXCEPT !.transValue = fc.args[1].value,
                                   !.transValueIsNull = FALSE,
                                   !.noTransValue = FALSE], fc, FALSE)
         ELSE IF pg.transValueIsNull THEN AdvResult(pg, fc, FALSE)
         ELSE InvokeTransfn(pg, fc, ret)
    ELSE InvokeTransfn(pg, fc, ret)

\* what one advance did: whether every argument was non-null, whether the
\* transition function was invoked, whether a non-null value was stored
AdvRecord(pt, pg, r) ==
    [nonnull |-> \A i \in 1..pt.numTransInputs : ~r.fcinfo.args[i].isnull,
     called |-> r.called,
     stored |-> /\ r.called \/ pg.transValueIsNull
                /\ ~r.pergroupstate.transValueIsNull]

(***************************************************************************)
(* DISTINCT and ORDER BY aggregates.  The inputs of a group are buffered   *)
(* in sortstates as tuples of numInputs Datums; a pertrans of such an      *)
(* aggregate also holds numInputs (here numTransInputs), numDistinctCols   *)
(* and the transition function: "inc" counts its calls, "add" sums its     *)
(* first argument.  The expression that buffers the inputs passes no       *)
(* input holding a null to the sort of a strict transition function.       *)
(***************************************************************************)
\* what the transition function returns for the state pg and the arguments
FunctionCallInvoke(pt, pg, args) ==
    [value |-> (IF pg.transValueIsNull THEN 0 ELSE pg.transValue)
               + (IF pt.transfn = "inc" \/ args[1].isnull THEN 1 ELSE args[1].value),
     isnull |-> FALSE]

\* the sort order of a tuple of Datums: column by column, nulls last
RECURSIVE DatumTupleRank(_, _)
DatumTupleRank(t, n) ==
    IF n = 0 THEN 0
    ELSE DatumTupleRank(t, n - 1) * (MaxDatum + 2)
         + (IF t[n].isnull THEN MaxDatum + 1 ELSE t[n].value)

\* tuplesort_performsort on a buffer of Datum tuples: the tuples of rank r
\* and above, in order
RECURSIVE tuplesort_performsort_datum(_, _)
tuplesort_performsort_datum(rows, r) ==
    IF r >= (MaxDatum + 2) * (MaxDatum + 2) THEN <<>>
    ELSE SelectSeq(rows, LAMBDA t : DatumTupleRank(t, Len(t)) = r)
         \o tuplesort_performsort_datum(rows, r + 1)

\* the loop state of process_ordered_aggregate_*: nothing read yet
OrderedStart(pg, fc, log) ==
    [pergroupstate |-> pg, fcinfo |-> fc, advLog |-> log, orderedLog |-> <<>>,
     haveOldVal |-> FALSE, oldVal |-> <<>>]

\* advance_transition_function on the arguments args loaded into fcinfo;
\* old is the value remembered for the equality checks
OrderedAdvance(pt, w, args, haveOld, old) ==
    [pergroupstate |->
         advance_transition_function(pt, w.pergroupstate,
             [w.fcinfo EXCEPT !.args = args],
             FunctionCallInvoke(pt, w.pergroupstate, args)).pergroupstate,
     fcinfo |->
         advance_transition_function(pt, w.pergroupstate,
             [w.fcinfo EXCEPT !.args = args],
             FunctionCallInvoke(pt, w.pergroupstate, args)).fcinfo,
     advLog |->
         Append(w.advLog, AdvRecord(pt, w.pergroupstate,
             advance_transition_function(pt, w.pergroupstate,
                 [w.fcinfo EXCEPT !.args = args],
                 FunctionCallInvoke(pt, w.pergroupstate, args)))),
     orderedLog |-> Append(w.orderedLog, args),
     haveOldVal |-> haveOld,
     oldVal |-> old]

RECURSIVE process_ordered_aggregate_single_all(_, _, _, _)
process_ordered_aggregate_single_all(pt, sorted, i, w) ==
    IF i > Len(sorted) THEN w
    ELSE process_ordered_aggregate_single_all(pt, sorted, i + 1,
             OrderedAdvance(pt, w, sorted[i], TRUE, sorted[i]))

\* process_ordered_aggregate_single from the i-th value of the sorted
\* buffer on; the abbreviated keys of two non-null values with equal values
\* are equal
RECURSIVE process_ordered_aggregate_single(_, _, _, _)
process_ordered_aggregate_single(pt, sorted, i, w) ==
    IF i > Len(sorted) THEN w
    ELSE IF /\ pt.numDistinctCols > 0
            /\ w.haveOldVal
            /\ \/ w.oldVal[1].isnull /\ sorted[i][1].isnull
               \/ /\ ~w.oldVal[1].isnull
                  /\ ~sorted[i][1].isnull
                  /\ w.oldVal[1].value = sorted[i][1].value
    THEN process_ordered_aggregate_single(pt, sorted, i + 1,
             [w EXCEPT !.fcinfo.args = sorted[i]])
    ELSE process_ordered_aggregate_single(pt, sorted, i + 1,
             OrderedAdvance(pt, w, sorted[i], TRUE, sorted[i]))

\* process_ordered_aggregate_multi from the i-th tuple of the sorted buffer
\* on; oldVal is the tuple kept in uniqslot, the abbreviated key of a tuple
\* is the value of its first column, 0 for a null
RECURSIVE process_ordered_aggregate_multi(_, _, _, _)
process_ordered_aggregate_multi(pt, sorted, i, w) ==
    IF i > Len(sorted) THEN w
    ELSE IF \/ pt.numDistinctCols = 0
            \/ ~w.haveOldVal
            \/ (IF sorted[i][1].isnull THEN 0 ELSE sorted[i][1].value)
                   # (IF w.oldVal[1].isnull THEN 0 ELSE w.oldVal[1].value)
            \/ \E j \in 1..pt.numDistinctCols : sorted[i][j] # w.oldVal[j]
    THEN process_ordered_aggregate_multi(pt, sorted, i + 1,
             OrderedAdvance(pt, w, sorted[i], pt.numDistinctCols > 0,
                            IF pt.numDistinctCols > 0 THEN sorted[i] ELSE w.oldVal))
    ELSE process_ordered_aggregate_multi(pt, sorted, i + 1, w)

(***************************************************************************)
(* finalize_aggregate.  A peragg holds whether the aggregate has a final   *)
(* function (finalfn_oid is valid), whether that function is strict, the   *)
(* number of direct arguments (the length of aggdirectargs) and            *)
(* numFinalArgs.                                                           *)
(***************************************************************************)
\* ExecInitAgg: numFinalArgs is numDirectArgs + 1, or numArguments + 1 (here
\* one aggregated argument more) when the final function takes extra nulls
PerAggSet ==
    {pa \in [finalfn_oid : BOOLEAN, fn_strict : BOOLEAN,
             numDirectArgs : 0..MaxDirectArgs, numFinalArgs : 1..(MaxDirectArgs + 2)] :
        /\ pa.numFinalArgs \in {pa.numDirectArgs + 1, pa.numDirectArgs + 2}
        /\ pa.finalfn_oid \/ ~pa.fn_strict}

\* the aggregate of the plans above has no final function
CountPerAgg ==
    [finalfn_oid |-> FALSE, fn_strict |-> FALSE, numDirectArgs |-> 0, numFinalArgs |-> 1]

NoResult == [resultVal |-> 0, resultIsNull |-> TRUE, called |-> FALSE, ran |-> FALSE,
             directargs |-> <<>>]

FinalResult(val, isnull, called, directargs) ==
    [resultVal |-> val, resultIsNull |-> isnull, called |-> called, ran |-> TRUE,
     directargs |-> directargs]

finalize_aggregate_always(pa, pg, directargs, ret) ==
    IF pa.finalfn_oid
    THEN FinalResult(ret.value, ret.isnull, TRUE, directargs)
    ELSE FinalResult(pg.transValue, pg.transValueIsNull, FALSE, directargs)

\* finalize_aggregate: directargs are the values of the direct arguments,
\* ret is what the final function returns if it is called
finalize_aggregate(pa, pg, directargs, ret) ==
    IF pa.finalfn_oid
    THEN IF /\ pa.fn_strict
            /\ \/ \E i \in 1..Len(directargs) : directargs[i].isnull
               \/ pg.transValueIsNull
               \/ Len(directargs) + 1 < pa.numFinalArgs
         THEN FinalResult(0, TRUE, FALSE, directargs)
         ELSE FinalResult(ret.value, ret.isnull, TRUE, directargs)
    ELSE FinalResult(pg.transValue, pg.transValueIsNull, FALSE, directargs)

(***************************************************************************)
(* The aggregates of the node.  An Aggref holds args, which stands for     *)
(* all that find_compatible_peragg compares of the inputs (inputcollid,    *)
(* aggtranstype, aggstar, aggvariadic, aggkind, args, aggorder,            *)
(* aggdistinct, aggfilter; the arguments VolatileArgs contain a volatile   *)
(* function), and aggfnoid, which stands for aggfnoid, aggtype, aggcollid  *)
(* and aggdirectargs.  initagg holds aggs (the Aggrefs and the aggno       *)
(* assigned to them, -1 before), next (the loop's position), peragg and    *)
(* pertrans; aggno and transno count from 0.                               *)
(***************************************************************************)
VolatileArgs == 3

NoAggs == [aggs |-> <<>>, next |-> 1, peragg |-> <<>>, pertrans |-> <<>>]

\* the pg_aggregate row of an aggregate function: aggregates 1..3 have the
\* same transition function and initial value, 3 has a read-write final
\* function, 4 differs from 2 in the initial value only
AggForm(aggfnoid) ==
    [aggtransfn |-> 10,
     aggfinalfn |-> IF aggfnoid = 1 THEN 0 ELSE IF aggfnoid = 3 THEN 22 ELSE 21,
     readwrite |-> aggfnoid = 3,
     initValueIsNull |-> aggfnoid # 4,
     initValue |-> 0]

RECURSIVE find_compatible_peragg_none(_, _, _, _)
find_compatible_peragg_none(newagg, peraggs, aggno, same_input_transnos) ==
    [aggno |-> -1, same_input_transnos |-> <<>>]

RECURSIVE find_compatible_peragg_inputs(_, _, _, _)
find_compatible_peragg_inputs(newagg, peraggs, aggno, same_input_transnos) ==
    IF newagg.args = VolatileArgs \/ aggno >= Len(peraggs)
    THEN [aggno |-> -1,
          same_input_transnos |-> IF newagg.args = VolatileArgs THEN <<>>
                                  ELSE same_input_transnos]
    ELSE IF newagg.args # peraggs[aggno + 1].aggref.args
    THEN find_compatible_peragg_inputs(newagg, peraggs, aggno + 1, same_input_transnos)
    ELSE [aggno |-> aggno, same_input_transnos |-> <<>>]

\* find_compatible_peragg from the existing aggregate aggno on
RECURSIVE find_compatible_peragg(_, _, _, _)
find_compatible_peragg(newagg, peraggs, aggno, same_input_transnos) ==
    IF newagg.args = VolatileArgs \/ aggno >= Len(peraggs)
    THEN [aggno |-> -1,
          same_input_transnos |-> IF newagg.args = VolatileArgs THEN <<>>
                                  ELSE same_input_transnos]
    ELSE IF newagg.args # peraggs[aggno + 1].aggref.args
    THEN find_compatible_peragg(newagg, peraggs, aggno + 1, same_input_transnos)
    ELSE IF newagg.aggfnoid = peraggs[aggno + 1].aggref.aggfnoid
    THEN [aggno |-> aggno, same_input_transnos |-> <<>>]
    ELSE find_compatible_peragg(newagg, peraggs, aggno + 1,
             IF peraggs[aggno + 1].shareable
             THEN Append(same_input_transnos, peraggs[aggno + 1].transno)
             ELSE same_input_transnos)

RECURSIVE find_compatible_pertrans_any(_, _, _, _, _)
find_compatible_pertrans_any(pertranses, shareable, aggform, transnos, i) ==
    IF i > Len(transnos) THEN -1
    ELSE IF aggform.aggtransfn # pertranses[transnos[i] + 1].transfn_oid
    THEN find_compatible_pertrans_any(pertranses, shareable, aggform, transnos, i + 1)
    ELSE IF \/ aggform.initValueIsNull /\ pertranses[transnos[i] + 1].initValueIsNull
            \/ /\ ~aggform.initValueIsNull
               /\ ~pertranses[transnos[i] + 1].initValueIsNull
               /\ aggform.initValue = pertranses[transnos[i] + 1].initValue
    THEN transnos[i]
    ELSE find_compatible_pertrans_any(pertranses, shareable, aggform, transnos, i + 1)

\* find_compatible_pertrans from the i-th element of transnos on; the
\* transition type is part of args, no serialization function is in use
RECURSIVE find_compatible_pertrans(_, _, _, _, _)
find_compatible_pertrans(pertranses, shareable, aggform, transnos, i) ==
    IF ~shareable \/ i > Len(transnos) THEN -1
    ELSE IF aggform.aggtransfn # pertranses[transnos[i] + 1].transfn_oid
    THEN find_compatible_pertrans(pertranses, shareable, aggform, transnos, i + 1)
    ELSE IF \/ aggform.initValueIsNull /\ pertranses[transnos[i] + 1].initValueIsNull
            \/ /\ ~aggform.initValueIsNull
               /\ ~pertranses[transnos[i] + 1].initValueIsNull
               /\ aggform.initValue = pertranses[transnos[i] + 1].initValue
    THEN transnos[i]
    ELSE find_compatible_pertrans(pertranses, shareable, aggform, transnos, i + 1)

BindPerTrans_unmarked(st, aggref, aggform, shareable, existing_transno) ==
    [st EXCEPT
        !.aggs[st.next].aggno = Len(st.peragg),
        !.next = @ + 1,
        !.peragg = Append(@, [aggref |-> aggref,
                              finalfn_oid |-> aggform.aggfinalfn,
                              shareable |-> shareable,
                              transno |-> IF existing_transno # -1
                                          THEN existing_transno
                                          ELSE Len(st.pertrans)]),
        !.pertrans = IF existing_transno # -1 THEN @
                     ELSE Append(@, [transfn_oid |-> aggform.aggtransfn,
                                     initValueIsNull |-> aggform.initValueIsNull,
                                     initValue |-> aggform.initValue,
                                     aggref |-> aggref,
                                     aggshared |-> FALSE])]

\* ExecInitAgg: the new peragg of aggref is bound to the pertrans
\* existing_transno, or to a new one built by build_pertrans_for_aggref
BindPerTrans(st, aggref, aggform, shareable, existing_transno) ==
    [st EXCEPT
        !.aggs[st.next].aggno = Len(st.peragg),
        !.next = @ + 1,
        !.peragg = Append(@, [aggref |-> aggref,
                              finalfn_oid |-> aggform.aggfinalfn,
                              shareable |-> shareable,
                              transno |-> IF existing_transno # -1
                                          THEN existing_transno
                                          ELSE Len(st.pertrans)]),
        !.pertrans = IF existing_transno # -1
                     THEN [@ EXCEPT ![existing_transno + 1].aggshared = TRUE]
                     ELSE Append(@, [transfn_oid |-> aggform.aggtransfn,
                                     initValueIsNull |-> aggform.initValueIsNull,
                                     initValue |-> aggform.initValue,
                                     aggref |-> aggref,
                                     aggshared |-> FALSE])]

\* ExecInitAgg: one round of the loop over aggstate->aggs; found is what
\* find_compatible_peragg returned
InitAggref(st, aggref, aggform, found) ==
    IF found.aggno # -1
    THEN [st EXCEPT !.aggs[st.next].aggno = found.aggno, !.next = @ + 1]
    ELSE BindPerTrans(st, aggref, aggform,
             ~aggform.readwrite \/ aggform.aggfinalfn = 0,
             find_compatible_pertrans(st.pertrans,
                 ~aggform.readwrite \/ aggform.aggfinalfn = 0,
                 aggform, found.same_input_transnos, 1))

(***************************************************************************)
(* ExecReScanAgg.  Closing a tape set counts in its field closed; closing  *)
(* it again reads and frees memory that was freed: the backend crashes or  *)
(* goes on, as the allocator has it (uaf).                                 *)
(***************************************************************************)
LogicalTapeSetClose(tapesets, id) ==
    IF id = 0 THEN tapesets ELSE [tapesets EXCEPT ![id].closed = @ + 1]

\* LogicalTapeSetClose of the tape sets ids[i], ids[i + 1], ...
RECURSIVE CloseFrom(_, _, _)
CloseFrom(tapesets, ids, i) ==
    IF i > Len(ids) THEN tapesets
    ELSE CloseFrom(LogicalTapeSetClose(tapesets, ids[i]), ids, i + 1)

\* hash_reset_spills: the spills of the sets, those of the batches that
\* wait, then the tape sets of lts_list
hash_reset_spills(w) ==
    [w EXCEPT
        !.t = CloseFrom(
                  CloseFrom(
                      CloseFrom(w.t, [i \in DOMAIN w.a.hash_spills |->
                                         w.a.hash_spills[i].lts], 1),
                      [i \in DOMAIN w.a.hash_batches |-> w.a.hash_batches[i].spill.lts],
                      1),
                  w.a.lts_list, 1),
        !.a.hash_spills = <<>>,
        !.a.hash_batches = <<>>,
        !.a.lts_list = <<>>]

\* a tape set has been closed more than once
ClosedTwice(tapesets) == \E id \in DOMAIN tapesets : tapesets[id].closed > 1

\* ExecReScanAgg for AGG_HASHED and AGG_MIXED, after hash_reset_spills
ReScanHash(p, w, uaf) ==
    IF uaf /\ ClosedTwice(w.t) THEN [w EXCEPT !.a = Fault(w.a)]
    ELSE [w EXCEPT !.a = [build_hash_table(p,
                              [w.a EXCEPT !.hash_spilled = FALSE,
                                          !.hash_no_new_groups = FALSE,
                                          !.hash_mem_current = 0,
                                          !.hash_ngroups_current = 0],
                              -1)
                          EXCEPT !.table_filled = FALSE]]

\* ExecReScanAgg for every strategy but AGG_HASHED: MemSet of the per-group
\* states of the sorted grouping sets, and back to phase 1
ReScanSorted(p, w) ==
    IF w.a.fault THEN w
    ELSE IF \E setno \in 1..MaxSets(p) : w.a.pergroups[setno] = NullPG
         THEN [w EXCEPT !.a = Fault(w.a)]
    ELSE [w EXCEPT !.a = [initialize_phase(p,
                              [w.a EXCEPT !.pergroups =
                                              [setno \in DOMAIN @ |->
                                                  IF setno <= MaxSets(p) THEN InitPG
                                                  ELSE @[setno]],
                                          !.sortstates =
                                              [setno \in DOMAIN @ |-> NoSort]],
                              1)
                          EXCEPT !.input_done = FALSE, !.projected_set = -1]]

\* ExecReScanAgg; chgParam: a parameter of the child or one the aggregates'
\* inputs use has changed.  ExecReScan(outerPlan) here, or ExecProcNode at
\* the next fetch when chgParam is set, has the child yield its rows again.
ExecReScanAgg(p, w, chgParam, uaf) ==
    IF p.aggstrategy = AGG_HASHED /\ ~w.a.table_filled
    THEN [w EXCEPT !.a.agg_done = FALSE]
    ELSE IF p.aggstrategy = AGG_HASHED /\ ~chgParam /\ ~w.a.hash_spilled
    THEN [w EXCEPT !.a = select_current_set(
                             ResetTupleHashIterator([w.a EXCEPT !.agg_done = FALSE], 0),
                             0)]
    ELSE [(IF p.aggstrategy # AGG_HASHED
           THEN ReScanSorted(p,
                    IF UseHashing(p)
                    THEN ReScanHash(p,
                             hash_reset_spills(
                                 [w EXCEPT !.a.agg_done = FALSE,
                                           !.a.grp_firstTuple = NoRow,
                                           !.a.firstSlot = NoRow]),
                             uaf)
                    ELSE [w EXCEPT !.a.agg_done = FALSE,
                                   !.a.grp_firstTuple = NoRow,
                                   !.a.firstSlot = NoRow])
           ELSE ReScanHash(p,
                    hash_reset_spills(
                        [w EXCEPT !.a.agg_done = FALSE,
                                  !.a.grp_firstTuple = NoRow,
                                  !.a.firstSlot = NoRow]),
                    uaf))
          EXCEPT !.cp = 0]

\* ExecEndAgg: the tuplesorts are ended, the spills reset, the contexts of
\* the hash tables and of the scan slot released
ExecEndAgg(p, w, uaf) ==
    IF uaf /\ ClosedTwice(hash_reset_spills(w).t)
    THEN [hash_reset_spills(w) EXCEPT !.a = Fault(@)]
    ELSE [hash_reset_spills(w) EXCEPT
             !.a.sort_in = NoSort,
             !.a.sort_out = NoSort,
             !.a.sortstates = [setno \in DOMAIN @ |-> NoSort],
             !.a.firstSlot = NoRow,
             !.a.perhash = [i \in DOMAIN @ |-> [@[i] EXCEPT !.hashtable = NoTable]]]

(***************************************************************************)
(* ExecAgg and the steps of a call.                                        *)
(***************************************************************************)
ExecAggDispatch_again(p, a) ==
    IF PhaseStrategy(p, a.current_phase) = AGG_HASHED
    THEN IF ~a.table_filled THEN "fill" ELSE "retrieve"
    ELSE IF PhaseStrategy(p, a.current_phase) = AGG_MIXED THEN "retrieve"
    ELSE "direct"

\* where ExecAgg goes: "idle" is the return of NULL of a node that is done
ExecAggDispatch(p, a) ==
    IF a.agg_done THEN "idle"
    ELSE IF PhaseStrategy(p, a.current_phase) = AGG_HASHED
         THEN IF ~a.table_filled THEN "fill" ELSE "retrieve"
    ELSE IF PhaseStrategy(p, a.current_phase) = AGG_MIXED THEN "retrieve"
    ELSE "direct"

\* the step with outcome r is taken
Apply(r) ==
    /\ agg' = r.w.a
    /\ lts' = r.w.t
    /\ childPos' = r.w.cp
    /\ pc' = IF r.w.a.fault THEN "crashed" ELSE r.pc
    /\ fin' = IF r.w.a.fault THEN fin ELSE fin \o r.fin
    /\ out' = IF r.w.a.fault THEN out ELSE out \o r.emit
    /\ lastRet' = IF r.w.a.fault \/ r.pc # "idle" THEN lastRet
                  ELSE IF r.emit # <<>> THEN "row" ELSE "null"
    /\ eos' = IF ~r.w.a.fault /\ r.pc = "idle" /\ r.emit = <<>> THEN eos + 1 ELSE eos
    /\ UNCHANGED <<plan, input, rescans, eflags, assert_checking>>
    /\ UNCHANGED transvars

ExecAgg ==
    /\ pc = "idle"
    /\ eos < MaxEosCalls
    /\ Apply(Res(World, ExecAggDispatch(plan, agg), <<>>, <<>>))

FillStep == pc = "fill" /\ Apply(agg_fill_hash_table(plan, World))

RetrieveStep == pc = "retrieve" /\ Apply(agg_retrieve_hash_table(plan, World))

RefillStep == pc = "refill" /\ Apply(agg_refill_step(plan, World))

DirectStep == pc = "direct" /\ Apply(agg_retrieve_direct(plan, World))

GroupStep == pc = "accum" /\ Apply(agg_retrieve_direct_group(plan, World))

Init ==
    /\ plan \in Plans
    /\ input \in Inputs(plan)
    /\ agg = ExecInitAgg(plan)
    /\ lts = <<>>
    /\ childPos = 0
    /\ pc = "idle"
    /\ lastRet = "none"
    /\ out = <<>>
    /\ fin = <<>>
    /\ eos = 0
    /\ rescans = 0
    /\ eflags = {}
    /\ assert_checking = FALSE
    /\ pertrans = CountPerTrans
    /\ pergroupstate = initialize_aggregate(pertrans)
    /\ fcinfo = NoFcinfo
    /\ transOp = "none"
    /\ transfnCalled = FALSE
    /\ advLog = <<>>
    /\ peragg = CountPerAgg
    /\ finalResult = NoResult
    /\ sortstates = NoSort
    /\ orderedLog = [read |-> <<>>, advanced |-> <<>>]
    /\ initagg = NoAggs

Next ==
    \/ ExecAgg
    \/ FillStep
    \/ RetrieveStep
    \/ RefillStep
    \/ DirectStep
    \/ GroupStep

Spec == Init /\ [][Next]_vars

(***************************************************************************)
(* ExecInitAgg with its flags.  pc = "init" is before the call; a failed   *)
(* Assert aborts the backend.                                              *)
(***************************************************************************)
\* no AggState has been made
NoAggState == [fault |-> FALSE]

\* ExecInitAgg(node, estate, eflags): the AggState, and the flags the child
\* is initialized with
ExecInitAggFlags(p, flags, asserts) ==
    IF asserts /\ flags \cap {EXEC_FLAG_BACKWARD, EXEC_FLAG_MARK} # {}
    THEN [a |-> Fault(NoAggState), eflags |-> flags]
    ELSE [a |-> ExecInitAgg(p),
          eflags |-> IF p.aggstrategy = AGG_HASHED
                     THEN flags \ {EXEC_FLAG_REWIND} ELSE flags]

ExecInitNode ==
    /\ pc = "init"
    /\ agg' = ExecInitAggFlags(plan, eflags, assert_checking).a
    /\ eflags' = ExecInitAggFlags(plan, eflags, assert_checking).eflags
    /\ pc' = IF ExecInitAggFlags(plan, eflags, assert_checking).a.fault
             THEN "crashed" ELSE "idle"
    /\ UNCHANGED <<plan, input, lts, childPos, lastRet, out, fin, eos, rescans,
                   assert_checking>>
    /\ UNCHANGED transvars

StartInit ==
    /\ plan \in Plans
    /\ input = <<>>
    /\ agg = NoAggState
    /\ lts = <<>>
    /\ childPos = 0
    /\ pc = "init"
    /\ lastRet = "none"
    /\ out = <<>>
    /\ fin = <<>>
    /\ eos = 0
    /\ rescans = 0
    /\ eflags \in SUBSET {EXEC_FLAG_REWIND, EXEC_FLAG_BACKWARD, EXEC_FLAG_MARK}
    /\ assert_checking \in BOOLEAN
    /\ pertrans = CountPerTrans
    /\ pergroupstate = initialize_aggregate(pertrans)
    /\ fcinfo = NoFcinfo
    /\ transOp = "none"
    /\ transfnCalled = FALSE
    /\ advLog = <<>>
    /\ peragg = CountPerAgg
    /\ finalResult = NoResult
    /\ sortstates = NoSort
    /\ orderedLog = [read |-> <<>>, advanced |-> <<>>]
    /\ initagg = NoAggs

InitSpec == StartInit /\ [][ExecInitNode]_vars

\* The caller rescans the node between two calls of ExecAgg.  out, fin and
\* eos start again: they are of the scan that begins.
ReScan ==
    /\ pc = "idle"
    /\ rescans < MaxRescans
    /\ \E chgParam \in BOOLEAN, uaf \in BOOLEAN :
           /\ agg' = ExecReScanAgg(plan, World, chgParam, uaf).a
           /\ lts' = ExecReScanAgg(plan, World, chgParam, uaf).t
           /\ childPos' = ExecReScanAgg(plan, World, chgParam, uaf).cp
           /\ pc' = IF ExecReScanAgg(plan, World, chgParam, uaf).a.fault
                    THEN "crashed" ELSE "idle"
    /\ rescans' = rescans + 1
    /\ lastRet' = "none"
    /\ out' = <<>>
    /\ fin' = <<>>
    /\ eos' = 0
    /\ UNCHANGED <<plan, input, eflags, assert_checking>>
    /\ UNCHANGED transvars

RescanNext == Next \/ ReScan

RescanSpec == Init /\ [][RescanNext]_vars

\* The caller ends the node between two calls of ExecAgg.
EndAgg ==
    /\ pc = "idle"
    /\ \E uaf \in BOOLEAN :
           /\ agg' = ExecEndAgg(plan, World, uaf).a
           /\ lts' = ExecEndAgg(plan, World, uaf).t
           /\ pc' = IF ExecEndAgg(plan, World, uaf).a.fault THEN "crashed" ELSE "ended"
    /\ UNCHANGED <<plan, input, childPos, lastRet, out, fin, eos, rescans,
                   eflags, assert_checking>>
    /\ UNCHANGED transvars

LifeNext == Next \/ ReScan \/ EndAgg

LifeSpec == Init /\ [][LifeNext]_vars

(***************************************************************************)
(* A node whose aggregate has an ORDER BY: its inputs are buffered in a    *)
(* sort for each grouping set and aggregated when the group is finalized.  *)
(* Such an aggregate is not hashed.  The caller may rescan or end the node *)
(* between two calls.                                                      *)
(***************************************************************************)
OrderedInit ==
    /\ plan \in {p \in Plans : ~UseHashing(p)}
    /\ input \in Inputs(plan)
    /\ agg = [ExecInitAgg(plan) EXCEPT !.numSortCols = 1]
    /\ lts = <<>>
    /\ childPos = 0
    /\ pc = "idle"
    /\ lastRet = "none"
    /\ out = <<>>
    /\ fin = <<>>
    /\ eos = 0
    /\ rescans = 0
    /\ eflags = {}
    /\ assert_checking = FALSE
    /\ pertrans = CountPerTrans
    /\ pergroupstate = initialize_aggregate(pertrans)
    /\ fcinfo = NoFcinfo
    /\ transOp = "none"
    /\ transfnCalled = FALSE
    /\ advLog = <<>>
    /\ peragg = CountPerAgg
    /\ finalResult = NoResult
    /\ sortstates = NoSort
    /\ orderedLog = [read |-> <<>>, advanced |-> <<>>]
    /\ initagg = NoAggs

OrderedNext == ExecAgg \/ DirectStep \/ GroupStep \/ ReScan \/ EndAgg

OrderedSpec == OrderedInit /\ [][OrderedNext]_vars

\* the positions of a call of ExecAgg that has not returned
Running == {"fill", "retrieve", "refill", "direct", "accum"}

\* a step of the call in progress
CallStep == FillStep \/ RetrieveStep \/ RefillStep \/ DirectStep \/ GroupStep

\* The caller keeps calling ExecAgg, and a call that has begun runs on.  The
\* second is weak fairness of CallStep, with ENABLED <<CallStep>>_vars
\* written out as pc \in Running: each step is guarded by its position alone
\* and moves the node.
FairSpec ==
    /\ Spec
    /\ WF_vars(ExecAgg)
    /\ ([]<>(pc \notin Running) \/ []<><<CallStep>>_vars)

(***************************************************************************)
(* The transition state of one aggregate on its own: any aggregate, any    *)
(* arguments, any transition function.  The node stays as ExecInitAgg made *)
(* it for a plain aggregation.                                             *)
(***************************************************************************)
InitializeAggregate ==
    /\ pergroupstate' = initialize_aggregate(pertrans)
    /\ transOp' = "initialize_aggregate"
    /\ transfnCalled' = FALSE
    /\ advLog' = <<>>
    /\ finalResult' = NoResult
    /\ UNCHANGED <<pertrans, fcinfo, peragg, sortstates, orderedLog, initagg>>
    /\ UNCHANGED nodevars

\* advance_transition_function has run with outcome r
ApplyAdvance(r) ==
    /\ pergroupstate' = r.pergroupstate
    /\ fcinfo' = r.fcinfo
    /\ transfnCalled' = r.called
    /\ advLog' = Append(advLog, AdvRecord(pertrans, pergroupstate, r))
    /\ transOp' = "advance_transition_function"
    /\ UNCHANGED <<pertrans, peragg, finalResult, sortstates, orderedLog, initagg>>
    /\ UNCHANGED nodevars

AdvanceTransition ==
    /\ Len(advLog) < MaxAdvances
    /\ transOp # "finalize_aggregate"
    /\ \E args \in [1..pertrans.numTransInputs -> Datums], ret \in Datums :
           ApplyAdvance(advance_transition_function(pertrans, pergroupstate,
                                                    [fcinfo EXCEPT !.args = args], ret))

TransInit ==
    /\ plan \in {p \in Plans : p.aggstrategy = AGG_PLAIN /\ p.having = 0}
    /\ input = <<>>
    /\ agg = ExecInitAgg(plan)
    /\ lts = <<>>
    /\ childPos = 0
    /\ pc = "idle"
    /\ lastRet = "none"
    /\ out = <<>>
    /\ fin = <<>>
    /\ eos = 0
    /\ rescans = 0
    /\ eflags = {}
    /\ assert_checking = FALSE
    /\ pertrans \in PerTransSet
    /\ pergroupstate = initialize_aggregate(pertrans)
    /\ fcinfo = NoFcinfo
    /\ transOp = "initialize_aggregate"
    /\ transfnCalled = FALSE
    /\ advLog = <<>>
    /\ peragg = CountPerAgg
    /\ finalResult = NoResult
    /\ sortstates = NoSort
    /\ orderedLog = [read |-> <<>>, advanced |-> <<>>]
    /\ initagg = NoAggs

TransNext == InitializeAggregate \/ AdvanceTransition

TransSpec == TransInit /\ [][TransNext]_vars

\* finalize_aggregate runs for the group, with the values the direct
\* arguments evaluate to and the value the final function would return
FinalizeAggregate ==
    /\ transOp \in {"initialize_aggregate", "advance_transition_function"}
    /\ \E directargs \in [1..peragg.numDirectArgs -> Datums], ret \in Datums :
           finalResult' = finalize_aggregate(peragg, pergroupstate, directargs, ret)
    /\ transOp' = "finalize_aggregate"
    /\ UNCHANGED <<pertrans, pergroupstate, fcinfo, transfnCalled, advLog, peragg,
                   sortstates, orderedLog, initagg>>
    /\ UNCHANGED nodevars

FinalInit ==
    /\ plan \in {p \in Plans : p.aggstrategy = AGG_PLAIN /\ p.having = 0}
    /\ input = <<>>
    /\ agg = ExecInitAgg(plan)
    /\ lts = <<>>
    /\ childPos = 0
    /\ pc = "idle"
    /\ lastRet = "none"
    /\ out = <<>>
    /\ fin = <<>>
    /\ eos = 0
    /\ rescans = 0
    /\ eflags = {}
    /\ assert_checking = FALSE
    /\ pertrans \in {pt \in PerTransSet : pt.numTransInputs = 1}
    /\ pergroupstate = initialize_aggregate(pertrans)
    /\ fcinfo = NoFcinfo
    /\ transOp = "initialize_aggregate"
    /\ transfnCalled = FALSE
    /\ advLog = <<>>
    /\ peragg \in PerAggSet
    /\ finalResult = NoResult
    /\ sortstates = NoSort
    /\ orderedLog = [read |-> <<>>, advanced |-> <<>>]
    /\ initagg = NoAggs

FinalNext == InitializeAggregate \/ AdvanceTransition \/ FinalizeAggregate

FinalSpec == FinalInit /\ [][FinalNext]_vars

\* finalize_aggregates runs process_ordered_aggregate_single or _multi for
\* the group: the outcome w is stored and the sort is ended
ApplyOrdered(w, sorted) ==
    /\ pergroupstate' = w.pergroupstate
    /\ fcinfo' = w.fcinfo
    /\ advLog' = w.advLog
    /\ orderedLog' = [read |-> sorted, advanced |-> w.orderedLog]
    /\ sortstates' = NoSort
    /\ transfnCalled' = (\E i \in DOMAIN w.advLog : w.advLog[i].called)
    /\ transOp' = "process_ordered_aggregate"
    /\ UNCHANGED <<pertrans, peragg, finalResult, initagg>>
    /\ UNCHANGED nodevars

ProcessOrderedAggregate ==
    /\ sortstates.active
    /\ IF pertrans.numTransInputs = 1
       THEN ApplyOrdered(process_ordered_aggregate_single(pertrans,
                tuplesort_performsort_datum(sortstates.rows, 0), 1,
                OrderedStart(pergroupstate, fcinfo, advLog)),
                tuplesort_performsort_datum(sortstates.rows, 0))
       ELSE ApplyOrdered(process_ordered_aggregate_multi(pertrans,
                tuplesort_performsort_datum(sortstates.rows, 0), 1,
                OrderedStart(pergroupstate, fcinfo, advLog)),
                tuplesort_performsort_datum(sortstates.rows, 0))

DistinctInit ==
    /\ plan \in {p \in Plans : p.aggstrategy = AGG_PLAIN /\ p.having = 0}
    /\ input = <<>>
    /\ agg = ExecInitAgg(plan)
    /\ lts = <<>>
    /\ childPos = 0
    /\ pc = "idle"
    /\ lastRet = "none"
    /\ out = <<>>
    /\ fin = <<>>
    /\ eos = 0
    /\ rescans = 0
    /\ eflags = {}
    /\ assert_checking = FALSE
    /\ pertrans \in
           {pt \in [fn_strict : BOOLEAN, numTransInputs : NumTransInputs,
                    initValue : {0}, initValueIsNull : BOOLEAN,
                    numDistinctCols : 0..2, transfn : {"inc", "add"}] :
               /\ pt.numDistinctCols \in {0, pt.numTransInputs}
               /\ pt.transfn = "add" => pt.fn_strict
               /\ pt.transfn = "inc" /\ pt.fn_strict => ~pt.initValueIsNull}
    /\ pergroupstate = initialize_aggregate(pertrans)
    /\ fcinfo = NoFcinfo
    /\ transOp = "initialize_aggregate"
    /\ transfnCalled = FALSE
    /\ advLog = <<>>
    /\ peragg = CountPerAgg
    /\ finalResult = NoResult
    /\ sortstates \in
           {[active |-> TRUE, rows |-> rows, rpos |-> 0] :
               rows \in {b \in SeqsUpTo([1..pertrans.numTransInputs -> Datums],
                                        MaxBuffered) :
                            pertrans.fn_strict =>
                                \A i \in DOMAIN b : \A j \in DOMAIN b[i] :
                                    ~b[i][j].isnull}}
    /\ orderedLog = [read |-> <<>>, advanced |-> <<>>]
    /\ initagg = NoAggs

DistinctSpec == DistinctInit /\ [][ProcessOrderedAggregate]_vars

\* agg_refill_hash_table spills a tuple of its batch for the first time
\* (hash_spill_init) and, at the end of the batch, hash_spill_finish makes
\* the batches of the partitions
RespillBatch ==
    /\ pc = "respill"
    /\ agg' = hash_spill_finish(
                  [agg EXCEPT !.batch.spill =
                      hash_spill_init([spill |-> agg.batch.spill, lts |-> lts],
                                      plan.mem.work_mem, agg.batch.input_bits,
                                      agg.batch.input_tuples, agg.hashentrysize).spill],
                  hash_spill_init([spill |-> agg.batch.spill, lts |-> lts],
                                  plan.mem.work_mem, agg.batch.input_bits,
                                  agg.batch.input_tuples, agg.hashentrysize).spill,
                  agg.batch.setno, agg.batch.input_bits)
    /\ lts' = RewindTapes(
                  hash_spill_init([spill |-> agg.batch.spill, lts |-> lts],
                                  plan.mem.work_mem, agg.batch.input_bits,
                                  agg.batch.input_tuples, agg.hashentrysize).lts,
                  hash_spill_init([spill |-> agg.batch.spill, lts |-> lts],
                                  plan.mem.work_mem, agg.batch.input_bits,
                                  agg.batch.input_tuples, agg.hashentrysize).spill)
    /\ pc' = "respilled"
    /\ UNCHANGED <<plan, input, childPos, lastRet, out, fin, eos, rescans,
                   eflags, assert_checking>>
    /\ UNCHANGED transvars

\* a batch of a hashed grouping set at some depth of the recursion: it has
\* consumed input_bits bits of the hash (the initial spill takes at least 2)
\* and holds input_tuples tuples on a tape of its own
RespillInit ==
    /\ \E p \in {q \in Plans : q.aggstrategy = AGG_HASHED /\ NumHashes(q) = 1},
          work_mem \in {64, 1024} :
           plan = [p EXCEPT !.mem.work_mem = work_mem]
    /\ input = <<>>
    /\ \E input_bits \in 2..HashBits, input_tuples \in {1, 100, 10000} :
           agg = [ExecInitAgg(plan) EXCEPT
                     !.table_filled = TRUE,
                     !.batch = hash_batch_new(1, 0, 0, input_tuples, input_bits)]
    /\ lts = LogicalTapeSetCreate(<<>>, 1)
    /\ childPos = 1
    /\ pc = "respill"
    /\ lastRet = "none"
    /\ out = <<>>
    /\ fin = <<>>
    /\ eos = 0
    /\ rescans = 0
    /\ eflags = {}
    /\ assert_checking = FALSE
    /\ pertrans = CountPerTrans
    /\ pergroupstate = initialize_aggregate(pertrans)
    /\ fcinfo = NoFcinfo
    /\ transOp = "none"
    /\ transfnCalled = FALSE
    /\ advLog = <<>>
    /\ peragg = CountPerAgg
    /\ finalResult = NoResult
    /\ sortstates = NoSort
    /\ orderedLog = [read |-> <<>>, advanced |-> <<>>]
    /\ initagg = NoAggs

RespillSpec == RespillInit /\ [][RespillBatch]_vars

(***************************************************************************)
(* hash_spill_init over its arguments.  A hashed aggregation whose first   *)
(* group fills the memory spills its second row, with input_bits 0, the    *)
(* planner's numGroups and hashentrysize; a batch read back is spilled     *)
(* with its own input_bits and input_tuples.                               *)
(***************************************************************************)
\* work_mem in kB (64 is the least the setting allows), the estimates of the
\* planner; one entry takes more than hash_mem_limit
SpillPlans ==
    { [aggstrategy |-> AGG_HASHED, sorted |-> <<>>, hashes |-> << <<1>> >>,
       numGroups |-> g,
       mem |-> [work_mem |-> w, hashagg_mem_overflow |-> FALSE,
                hashentrysize |-> h, entryBytes |-> w * 1024 + 1],
       having |-> 0] :
          g \in {2, 100, 1000000}, w \in {64, 100, 160, 1024, 16384},
          h \in {64, 40000} }

FirstSpillInit ==
    /\ plan \in SpillPlans
    /\ input \in {<< <<1, 1>>, <<2, 1>> >>, << <<1, 1>>, <<2, 2>>, <<1, 2>> >>}
    /\ agg = ExecInitAgg(plan)
    /\ lts = <<>>
    /\ childPos = 0
    /\ pc = "idle"
    /\ lastRet = "none"
    /\ out = <<>>
    /\ fin = <<>>
    /\ eos = 0
    /\ rescans = 0
    /\ eflags = {}
    /\ assert_checking = FALSE
    /\ pertrans = CountPerTrans
    /\ pergroupstate = initialize_aggregate(pertrans)
    /\ fcinfo = NoFcinfo
    /\ transOp = "none"
    /\ transfnCalled = FALSE
    /\ advLog = <<>>
    /\ peragg = CountPerAgg
    /\ finalResult = NoResult
    /\ sortstates = NoSort
    /\ orderedLog = [read |-> <<>>, advanced |-> <<>>]
    /\ initagg = NoAggs

SpillInitNext == ExecAgg \/ FillStep \/ RetrieveStep \/ RefillStep \/ RespillBatch

SpillInitSpec == (FirstSpillInit \/ RespillInit) /\ [][SpillInitNext]_vars

(***************************************************************************)
(* hash_spill_tuple over hash values.  The batch of an empty partition has *)
(* been read and a batch of three tuples with different keys waits, at     *)
(* some depth of the recursion; one entry fills the memory, so the second  *)
(* and the third tuple are spilled again.  The hash values are those some  *)
(* hash function of the grouping columns gives: the tuples of a batch      *)
(* agree on the bits consumed, the other bits are free.                    *)
(***************************************************************************)
\* the bits of the hash values that vary
RouteBits == {3, 4, 5, 30, 31, 32}

\* the tuples on the tape of the batch: prefix is what the bits consumed hold
RouteTape(input_bits, prefix, h2, h3) ==
    [data |-> << [hash |-> {b \in prefix : b <= input_bits},
                  tuple |-> [id |-> 1, c |-> <<1, 1>>]],
                 [hash |-> {b \in prefix : b <= input_bits}
                               \cup {b \in h2 : b > input_bits},
                  tuple |-> [id |-> 2, c |-> <<1, 2>>]],
                 [hash |-> {b \in prefix : b <= input_bits}
                               \cup {b \in h3 : b > input_bits},
                  tuple |-> [id |-> 3, c |-> <<2, 1>>]] >>,
     rpos |-> 0]

RouteInit ==
    /\ \E w \in {64, 160} :
           plan = [aggstrategy |-> AGG_HASHED, sorted |-> <<>>,
                   hashes |-> << <<1, 2>> >>, numGroups |-> 2,
                   mem |-> [work_mem |-> w, hashagg_mem_overflow |-> FALSE,
                            hashentrysize |-> 64, entryBytes |-> w * 1024 + 1],
                   having |-> 0]
    /\ input = << <<1, 1>>, <<1, 2>>, <<2, 1>> >>
    /\ \E input_bits \in {2, 29, 30, 31, 32}, prefix \in {{}, {1, 2, 29}, {2, 30, 31}},
          h2 \in SUBSET RouteBits, flip \in BOOLEAN :
           /\ agg = [ExecInitAgg(plan) EXCEPT
                        !.table_filled = TRUE,
                        !.hash_spilled = TRUE,
                        !.hashentrysize = plan.mem.entryBytes,
                        !.outerops = "TTSOpsMinimalTuple",
                        !.evaltrans[0] =
                            ExecBuildAggTrans(FALSE, TRUE, TRUE, "TTSOpsMinimalTuple"),
                        !.batch = hash_batch_new(1, 0, 0, 0, 2),
                        !.hash_batches = <<hash_batch_new(1, 1, 0, 3, input_bits)>>,
                        !.lts_list = <<1>>]
           /\ lts = << [tapes |-> << NoTape,
                                     RouteTape(input_bits, prefix, h2,
                                               IF flip THEN RouteBits \ h2 ELSE h2) >>,
                        closed |-> 0] >>
    /\ childPos = 4
    /\ pc = "retrieve"
    /\ lastRet = "row"
    /\ out = <<>>
    /\ fin = <<>>
    /\ eos = 0
    /\ rescans = 0
    /\ eflags = {}
    /\ assert_checking = FALSE
    /\ pertrans = CountPerTrans
    /\ pergroupstate = initialize_aggregate(pertrans)
    /\ fcinfo = NoFcinfo
    /\ transOp = "none"
    /\ transfnCalled = FALSE
    /\ advLog = <<>>
    /\ peragg = CountPerAgg
    /\ finalResult = NoResult
    /\ sortstates = NoSort
    /\ orderedLog = [read |-> <<>>, advanced |-> <<>>]
    /\ initagg = NoAggs

RouteNext == ExecAgg \/ RetrieveStep \/ RefillStep

RouteSpec == RouteInit /\ [][RouteNext]_vars

\* ExecInitAgg looks the next aggregate of aggstate->aggs up
ExecInitAggref ==
    /\ initagg.next <= Len(initagg.aggs)
    /\ initagg' = InitAggref(initagg, initagg.aggs[initagg.next].aggref,
                             AggForm(initagg.aggs[initagg.next].aggref.aggfnoid),
                             find_compatible_peragg(
                                 initagg.aggs[initagg.next].aggref,
                                 initagg.peragg, 0, <<>>))
    /\ UNCHANGED <<pertrans, pergroupstate, fcinfo, transOp, transfnCalled, advLog,
                   peragg, finalResult, sortstates, orderedLog>>
    /\ UNCHANGED nodevars

DedupInit ==
    /\ plan \in {p \in Plans : p.aggstrategy = AGG_PLAIN /\ p.having = 0}
    /\ input = <<>>
    /\ agg = ExecInitAgg(plan)
    /\ lts = <<>>
    /\ childPos = 0
    /\ pc = "idle"
    /\ lastRet = "none"
    /\ out = <<>>
    /\ fin = <<>>
    /\ eos = 0
    /\ rescans = 0
    /\ eflags = {}
    /\ assert_checking = FALSE
    /\ pertrans = CountPerTrans
    /\ pergroupstate = initialize_aggregate(pertrans)
    /\ fcinfo = NoFcinfo
    /\ transOp = "none"
    /\ transfnCalled = FALSE
    /\ advLog = <<>>
    /\ peragg = CountPerAgg
    /\ finalResult = NoResult
    /\ sortstates = NoSort
    /\ orderedLog = [read |-> <<>>, advanced |-> <<>>]
    /\ initagg \in
           {[NoAggs EXCEPT !.aggs = aggs] :
               aggs \in SeqsUpTo({[aggref |-> [args |-> a, aggfnoid |-> f], aggno |-> -1] :
                                    a \in 1..VolatileArgs, f \in 1..4}, MaxAggs)}

DedupSpec == DedupInit /\ [][ExecInitAggref]_vars

(***************************************************************************)
(* What the properties below measure.                                      *)
(***************************************************************************)
\* the transitions the first n entries have absorbed
RECURSIVE SumTrans(_, _)
SumTrans(ents, n) ==
    IF n = 0 THEN 0 ELSE ents[n].additional.n + SumTrans(ents, n - 1)

\* the transitions the entries of the table of set setno have absorbed
InMemCount(a, setno) ==
    SumTrans(a.perhash[setno + 1].hashtable.ents,
             Len(a.perhash[setno + 1].hashtable.ents))

\* the tuples of the first n of data that hold just the columns cols
RECURSIVE CountData(_, _, _)
CountData(data, cols, n) ==
    IF n = 0 THEN 0
    ELSE (IF {i \in 1..2 : data[n].tuple.c[i] # 0} = cols THEN 1 ELSE 0)
         + CountData(data, cols, n - 1)

RECURSIVE CountTapes(_, _, _)
CountTapes(tapes, cols, n) ==
    IF n = 0 THEN 0
    ELSE CountData(tapes[n].data, cols, Len(tapes[n].data))
         + CountTapes(tapes, cols, n - 1)

RECURSIVE CountTapeSets(_, _, _)
CountTapeSets(tapesets, cols, n) ==
    IF n = 0 THEN 0
    ELSE CountTapes(tapesets[n].tapes, cols, Len(tapesets[n].tapes))
         + CountTapeSets(tapesets, cols, n - 1)

\* the tuples ever written to the spill partitions of the hashed set setno:
\* a spilled tuple holds the grouping columns of its set and no other
SpilledCount(tapesets, setno) ==
    CountTapeSets(tapesets, Range(plan.hashes[setno + 1]), Len(tapesets))

\* exactly one of the two counts goes up by one, the other stays
ExactlyOne(mem0, mem1, tape0, tape1) ==
    \/ mem1 = mem0 + 1 /\ tape1 = tape0
    \/ mem1 = mem0 /\ tape1 = tape0 + 1

\* a child row is offered to the hashed path by this step
OffersChildRow ==
    \/ pc = "fill" /\ childPos < Len(input)
    \/ pc = "accum" /\ plan.aggstrategy = AGG_MIXED /\ agg.current_phase = 1

\* a tuple read back from the batch's tape is offered by this step
OffersSpilledRow ==
    /\ pc = "refill"
    /\ lts[agg.batch.lts].closed = 0
    /\ ~TupIsNull(hash_read_spilled(lts, agg.batch.lts, agg.batch.input_tape).tuple)

\* C1 (conservation): every row offered to the hashed path, a child row in
\* agg_fill_hash_table or in phase 1 of a mixed aggregation, or a tuple read
\* back in agg_refill_hash_table, is for every hashed grouping set it is
\* offered to either advanced into an entry of the set's table or written
\* once to a partition of the set's spill, never both and never neither.
C1_Conservation ==
    [][/\ OffersChildRow =>
            \A setno \in 0..(NumHashes(plan) - 1) :
                ExactlyOne(InMemCount(agg, setno), InMemCount(agg', setno),
                           SpilledCount(lts, setno), SpilledCount(lts', setno))
       /\ OffersSpilledRow =>
            ExactlyOne(InMemCount(agg, agg.batch.setno),
                       InMemCount(agg', agg.batch.setno),
                       SpilledCount(lts, agg.batch.setno),
                       SpilledCount(lts', agg.batch.setno))]_vars

\* a batch is being read back, one of its tuples went into the table and
\* another one was spilled again
C1_Witness ==
    /\ pc = "refill"
    /\ InMemCount(agg, agg.batch.setno) > 0
    /\ agg.batch.spill.partitions # <<>>
    /\ SpilledCount(lts, agg.batch.setno) > 2

(***************************************************************************)
(* The groups of the child output, computed from the input alone.          *)
(***************************************************************************)
\* the values of the grouping columns cols that occur in the child output
KeysOf(cols) == {KeyOf(ChildRow(i), cols) : i \in 1..Len(input)}

\* the ids of the child rows of the group key
GroupRows(cols, key) == {i \in 1..Len(input) : KeyOf(ChildRow(i), cols) = key}

\* the result row of the group key of set setno of phase ph
ExpectedRow(ph, setno, cols, key) ==
    [phase |-> ph, set |-> setno,
     c |-> [i \in 1..2 |->
              IF \E j \in DOMAIN cols : cols[j] = i
              THEN key[CHOOSE j \in DOMAIN cols : cols[j] = i] ELSE 0],
     rows |-> GroupRows(cols, key), n |-> Cardinality(GroupRows(cols, key))]

\* the groups of the hashed grouping sets
ExpectedHashed ==
    UNION {{ExpectedRow(0, setno, plan.hashes[setno + 1], key) :
               key \in KeysOf(plan.hashes[setno + 1])} :
           setno \in 0..(NumHashes(plan) - 1)}

\* the rows of S that pass HAVING
Passing(S) == {r \in S : r.n >= plan.having}

\* seq lists the elements of S, each once
IsPermutationOf(seq, S) == Len(seq) = Cardinality(S) /\ Range(seq) = S

IsHashedRow(r) == r.phase = 0

\* the last call of ExecAgg returned end-of-stream
AtEos == pc = "idle" /\ lastRet = "null"

\* the budget holds at least one entry of a hash table
BudgetHoldsOneEntry ==
    plan.mem.hashagg_mem_overflow \/ plan.mem.entryBytes <= HashMemLimit(plan)

\* the hashed groups finalized and the hashed rows returned are those of
\* the child output, each once
HashedResultComplete ==
    /\ IsPermutationOf(SelectSeq(fin, IsHashedRow), ExpectedHashed)
    /\ IsPermutationOf(SelectSeq(out, IsHashedRow), Passing(ExpectedHashed))

\* C2 (spill transparency): with a budget that holds at least one entry, a
\* hashed aggregation runs to end-of-stream and has then emitted each
\* distinct key of each hashed grouping set exactly once, with a state that
\* absorbed every input row of the key, as it does with an unbounded budget,
\* whatever was spilled and however deep.
C2_SpillTransparency ==
    UseHashing(plan) /\ BudgetHoldsOneEntry =>
        /\ pc # "crashed"
        /\ AtEos => HashedResultComplete

\* a batch of a second hashed grouping set was read back: the node crashed
C2_Witness ==
    /\ pc = "crashed"
    /\ NumHashes(plan) >= 2
    /\ BudgetHoldsOneEntry
    /\ agg.hash_spilled

\* a result row without the phase and the set it is of
Strip(r) == [c |-> r.c, rows |-> r.rows, n |-> r.n]

StrippedOut == [i \in DOMAIN out |-> Strip(out[i])]

\* the plan groups on all of cols with one hash table, or by sorting with
\* no grouping sets
HashedOn(cols) == plan.aggstrategy = AGG_HASHED /\ plan.hashes = <<cols>>

SortedOn(cols) ==
    /\ plan.aggstrategy = AGG_SORTED
    /\ Len(plan.sorted) = 1
    /\ plan.sorted[1].grpColIdx = cols
    /\ plan.sorted[1].gsets = <<>>

\* C3 (hash/sort equivalence): for an order-insensitive aggregate, the rows
\* a hashed aggregation returns for a child output and the rows a sorted
\* aggregation on the same grouping columns returns for it are permutations
\* of each other: both are, at end-of-stream, the groups of the child output
\* that pass HAVING, each once.
C3_HashSortEquivalence ==
    \A cols \in {<<1, 2>>} :
        (HashedOn(cols) \/ SortedOn(cols)) /\ AtEos =>
            IsPermutationOf(StrippedOut,
                            {Strip(r) : r \in Passing({ExpectedRow(0, 0, cols, key) :
                                                          key \in KeysOf(cols)})})

\* a hashed aggregation that spilled has returned its rows
C3_Witness ==
    /\ HashedOn(<<1, 2>>)
    /\ AtEos
    /\ Len(lts) > 0
    /\ Len(out) >= 2

(***************************************************************************)
(* The groups of the sorted phases.                                        *)
(***************************************************************************)
\* the sizes of the grouping sets of phase ph; a phase with no grouping
\* sets groups on all of its grouping columns
SetSizes(ph) ==
    IF plan.sorted[ph].gsets = <<>> THEN <<Len(plan.sorted[ph].grpColIdx)>>
    ELSE plan.sorted[ph].gsets

\* the grouping columns of set setno of phase ph
SetCols(ph, setno) == SubSeq(plan.sorted[ph].grpColIdx, 1, SetSizes(ph)[setno + 1])

\* the keys of S in ascending order
RECURSIVE KeySeq(_)
KeySeq(S) ==
    IF S = {} THEN <<>>
    ELSE <<CHOOSE k \in S : \A k2 \in S : KeyLeq(k, k2)>>
         \o KeySeq(S \ {CHOOSE k \in S : \A k2 \in S : KeyLeq(k, k2)})

RowsOfKeys(ph, setno, cols, keys) ==
    [i \in 1..Len(keys) |-> ExpectedRow(ph, setno, cols, keys[i])]

\* the groups of set setno of phase ph in key order
ExpectedSorted(ph, setno) ==
    RowsOfKeys(ph, setno, SetCols(ph, setno), KeySeq(KeysOf(SetCols(ph, setno))))

\* the part of seq that is of set setno of phase ph
OfSet(seq, ph, setno) == SelectSeq(seq, LAMBDA r : r.phase = ph /\ r.set = setno)

PassesHaving(r) == r.n >= plan.having

IsPrefix(s, t) == Len(s) <= Len(t) /\ \A i \in 1..Len(s) : s[i] = t[i]

\* the node has left the sorted phases
SortedPhasesDone ==
    IF plan.aggstrategy = AGG_MIXED THEN agg.table_filled ELSE agg.agg_done

\* C4 (grouping-set determinism): in a sorted phase over input sorted on the
\* phase's grouping columns, for every grouping set of the phase and every
\* distinct value of the set's grouping-column prefix in the input exactly
\* one group is finalized, a row being returned for it when HAVING passes,
\* and the groups of one set are finalized in input key order.
C4_GroupingSetDeterminism ==
    Len(input) > 0 =>
        \A ph \in 1..Len(plan.sorted) :
            \A setno \in 0..(Len(SetSizes(ph)) - 1) :
                /\ IsPrefix(OfSet(fin, ph, setno), ExpectedSorted(ph, setno))
                /\ SortedPhasesDone =>
                       OfSet(fin, ph, setno) = ExpectedSorted(ph, setno)
                /\ OfSet(out, ph, setno) =
                       SelectSeq(OfSet(fin, ph, setno), PassesHaving)

\* the two sorted phases of a plan have finalized the groups of three rows
C4_Witness ==
    /\ plan.aggstrategy = AGG_SORTED
    /\ Len(plan.sorted) = 2
    /\ agg.agg_done
    /\ Len(input) = 3
    /\ Len(OfSet(fin, 1, 0)) = 3
    /\ Len(OfSet(fin, 2, 1)) = 1

\* the result row of a group of set setno of phase ph that is in its
\* initial state: no row absorbed, the grouping columns null
InitialRow(ph, setno) ==
    [phase |-> ph, set |-> setno, c |-> <<0, 0>>, rows |-> {}, n |-> 0]

\* with no input, the groups of set setno of phase ph: one in its initial
\* state for a set of size 0, none for a set of size > 0
ExpectedEmpty(ph, setno) ==
    IF SetSizes(ph)[setno + 1] = 0 THEN <<InitialRow(ph, setno)>> ELSE <<>>

\* C5 (empty-input rule, with HAVING): when the child yields no row, every
\* sorted phase finalizes exactly one group, in its initial state, for each
\* grouping set of size 0 (plain aggregation being one such set) and none
\* for a set of size > 0 (sorted aggregation without grouping sets being
\* one such set); the row of a finalized group is returned if and only if
\* it passes HAVING.
C5_EmptyInputRule ==
    Len(input) = 0 /\ SortedPhasesDone =>
        \A ph \in 1..Len(plan.sorted) :
            \A setno \in 0..(Len(SetSizes(ph)) - 1) :
                /\ OfSet(fin, ph, setno) = ExpectedEmpty(ph, setno)
                /\ OfSet(out, ph, setno) =
                       SelectSeq(ExpectedEmpty(ph, setno), PassesHaving)

\* C5 as stated: with no input a row is returned for every grouping set of
\* size 0, whatever the HAVING qual
C5_EmptyInputAlwaysEmits ==
    Len(input) = 0 /\ SortedPhasesDone =>
        \A ph \in 1..Len(plan.sorted) :
            \A setno \in 0..(Len(SetSizes(ph)) - 1) :
                OfSet(out, ph, setno) = ExpectedEmpty(ph, setno)

\* no input, grouping sets (a, b), (a), (): one row, of the set of size 0
C5_Witness ==
    /\ Len(input) = 0
    /\ agg.agg_done
    /\ Len(plan.sorted) = 1
    /\ plan.sorted[1].gsets = <<2, 1, 0>>
    /\ out = <<InitialRow(1, 2)>>

\* C6 (HAVING): every row ExecAgg returned is of a group that passed the
\* HAVING qual, and a step that finalizes a group that fails the qual
\* returns no row and does not end the call: the node goes on to the next
\* group, grouping set, phase or batch.
C6_Having ==
    /\ [](\A i \in DOMAIN out : PassesHaving(out[i]))
    /\ [][\A r \in Range(fin') \ Range(fin) :
              ~PassesHaving(r) =>
                  /\ out' = out
                  /\ lastRet' = lastRet
                  /\ pc' \in {"retrieve", "direct"}]_vars

\* a group failed HAVING and a later group of the same call was returned
C6_Witness ==
    /\ Len(fin) >= 2
    /\ ~PassesHaving(fin[1])
    /\ Len(out) = 1
    /\ lastRet = "row"
    /\ eos = 0

\* C7 (end-of-stream is sticky): once ExecAgg has returned no row, every
\* later call returns no row, finalizes and returns no group and fetches
\* nothing from the child or from a spill tape.
C7_EosSticky ==
    [][AtEos =>
          /\ pc' = "idle"
          /\ lastRet' = "null"
          /\ out' = out
          /\ fin' = fin
          /\ childPos' = childPos
          /\ lts' = lts]_vars

\* ExecAgg was called again after end-of-stream, in a mixed aggregation
\* that has spilled
C7_Witness ==
    /\ eos = MaxEosCalls
    /\ AtEos
    /\ plan.aggstrategy = AGG_MIXED
    /\ Len(lts) > 0

\* the walk of the table of set setno has come to the table's end
TableScanned(a, setno) ==
    a.perhash[setno + 1].hashtable.alive =>
        a.perhash[setno + 1].hashiter = Len(a.perhash[setno + 1].hashtable.ents)

\* C8 (hashed strategy): the child is read to exhaustion during the first
\* call of ExecAgg, before any row is returned, and is not read again; the
\* node then walks the tables of all grouping sets, refills them from the
\* next batch only when the walk is over, and returns end-of-stream only
\* when the tables are fully scanned and no batch is left.
C8_HashedDrain ==
    /\ [](plan.aggstrategy = AGG_HASHED =>
             /\ childPos <= Len(input) + 1
             /\ out # <<>> \/ lastRet # "none" => childPos = Len(input) + 1
             /\ AtEos =>
                    /\ agg.hash_batches = <<>>
                    /\ \A setno \in 0..(NumHashes(plan) - 1) :
                           TableScanned(agg, setno))
    /\ [][plan.aggstrategy = AGG_HASHED =>
             /\ childPos' # childPos =>
                    pc = "fill" /\ lastRet = "none" /\ out = <<>>
             /\ pc = "retrieve" /\ pc' = "refill" =>
                    /\ agg.current_set = NumHashes(plan) - 1
                    /\ TableScanned(agg, agg.current_set)
                    /\ agg.hash_batches # <<>>
                    /\ agg'.batch = Head(agg.hash_batches)]_vars

\* a hashed aggregation of three rows that has read batches back is at
\* end-of-stream
C8_Witness ==
    /\ plan.aggstrategy = AGG_HASHED
    /\ AtEos
    /\ Len(input) = 3
    /\ agg.batch.lts # 0
    /\ Len(out) >= 2

\* every sorted phase has finalized all the groups of all of its sets
AllSortedFinalized ==
    \A ph \in 1..Len(plan.sorted) :
        \A setno \in 0..(Len(SetSizes(ph)) - 1) :
            OfSet(fin, ph, setno) =
                IF Len(input) = 0 THEN ExpectedEmpty(ph, setno)
                ELSE ExpectedSorted(ph, setno)

\* C9 (mixed strategy): the child is read, and its rows are looked up in
\* the hash tables, once for each hashed set, only during sorted phase 1;
\* the first-level spills are finished when the input of phase 1 ends; and
\* no group of a hash table is finalized before every sorted phase has
\* finalized all of its groups: only then does the node switch to phase 0.
C9_MixedOrder ==
    /\ [](plan.aggstrategy = AGG_MIXED =>
             /\ \A i, j \in DOMAIN fin :
                    i < j => ~(fin[i].phase = 0 /\ fin[j].phase >= 1)
             /\ agg.table_filled \/ (\E i \in DOMAIN fin : fin[i].phase = 0) =>
                    AllSortedFinalized
             /\ agg.table_filled \/ agg.current_phase >= 2 \/ agg.input_done =>
                    agg.hash_spills = <<>>)
    /\ [][plan.aggstrategy = AGG_MIXED =>
             /\ childPos' # childPos =>
                    agg.current_phase = 1 /\ ~agg.table_filled
             /\ ~agg.table_filled =>
                    \A setno \in 0..(NumHashes(plan) - 1) :
                        IF pc = "accum" /\ agg.current_phase = 1
                        THEN ExactlyOne(InMemCount(agg, setno),
                                        InMemCount(agg', setno),
                                        SpilledCount(lts, setno),
                                        SpilledCount(lts', setno))
                        ELSE /\ InMemCount(agg', setno) = InMemCount(agg, setno)
                             /\ SpilledCount(lts', setno) = SpilledCount(lts, setno)]_vars

\* a mixed aggregation with two sorted phases that spilled is at
\* end-of-stream, having finalized hashed groups
C9_Witness ==
    /\ plan.aggstrategy = AGG_MIXED
    /\ Len(plan.sorted) = 2
    /\ AtEos
    /\ Len(lts) > 0
    /\ \E i \in DOMAIN fin : fin[i].phase = 0

\* C10 (strict transition function, null argument): advancing a transition
\* state whose transition function is strict with at least one null
\* argument among args[1..numTransInputs] leaves transValue,
\* transValueIsNull and noTransValue as they were and does not invoke the
\* transition function.
C10_StrictNullArgument ==
    [][/\ transOp' = "advance_transition_function"
       /\ pertrans.fn_strict
       /\ \E i \in 1..pertrans.numTransInputs : fcinfo'.args[i].isnull
       => /\ pergroupstate' = pergroupstate
          /\ ~transfnCalled'
          /\ fcinfo'.arg0 = fcinfo.arg0]_vars

\* a strict transition function that already has a non-null state was
\* offered a null second argument and was not invoked
C10_Witness ==
    /\ transOp = "advance_transition_function"
    /\ pertrans.fn_strict
    /\ pertrans.numTransInputs = 2
    /\ ~fcinfo.args[1].isnull
    /\ fcinfo.args[2].isnull
    /\ ~pergroupstate.noTransValue
    /\ ~pergroupstate.transValueIsNull
    /\ pergroupstate.transValue # pertrans.initValue
    /\ ~transfnCalled

(***************************************************************************)
(* C11: Strict-transfn law.  With a strict transition function and a null  *)
(* initial value, the first input whose arguments are all non-null is      *)
(* copied into the state without a call of the transition function, the    *)
(* function is first called on the second such input, and a group whose    *)
(* inputs all held a null has 0 calls and a null state.                    *)
(***************************************************************************)
\* the advances of the group whose arguments were all non-null
NonNullInputs == {i \in DOMAIN advLog : advLog[i].nonnull}

C11_StrictTransfnLaw ==
    /\ [](pertrans.fn_strict /\ pertrans.initValueIsNull =>
             /\ \A i \in DOMAIN advLog :
                    /\ ~advLog[i].nonnull => ~advLog[i].called
                    /\ advLog[i].nonnull =>
                           LET before == Cardinality({j \in NonNullInputs : j < i})
                           IN /\ before = 0 => ~advLog[i].called
                              /\ before = 1 => advLog[i].called
             /\ NonNullInputs = {} =>
                    /\ pergroupstate.transValueIsNull
                    /\ pergroupstate.noTransValue)
    /\ [][/\ transOp' = "advance_transition_function"
          /\ pertrans.fn_strict
          /\ pergroupstate.noTransValue
          /\ \A i \in 1..pertrans.numTransInputs : ~fcinfo'.args[i].isnull
          => /\ pergroupstate'.transValue = fcinfo'.args[1].value
             /\ ~pergroupstate'.transValueIsNull
             /\ ~transfnCalled']_vars

\* a null input, then the first non-null input (copied), then the second
\* (the first call)
C11_Witness ==
    /\ pertrans.fn_strict
    /\ pertrans.initValueIsNull
    /\ Len(advLog) = 3
    /\ ~advLog[1].nonnull
    /\ advLog[2].nonnull /\ ~advLog[2].called
    /\ advLog[3].nonnull /\ advLog[3].called

(***************************************************************************)
(* C12: no_value_yet implies is_null.  As stated, for every transition     *)
(* function: noTransValue implies transValueIsNull in every state.         *)
(***************************************************************************)
C12_NoValueYetImpliesNull ==
    pergroupstate.noTransValue => pergroupstate.transValueIsNull

\* C12 as the code has it: the implication holds for a strict transition
\* function; for one that is not strict noTransValue keeps the value
\* initialize_aggregate gave it
C12_NoValueYetStrict ==
    /\ pertrans.fn_strict =>
           (pergroupstate.noTransValue => pergroupstate.transValueIsNull)
    /\ ~pertrans.fn_strict =>
           pergroupstate.noTransValue = pertrans.initValueIsNull

\* a strict function that was called and returned null: a null running
\* value that is not "no value yet"
C12_Witness ==
    /\ pertrans.fn_strict
    /\ pertrans.initValueIsNull
    /\ \E i \in DOMAIN advLog : advLog[i].called
    /\ pergroupstate.transValueIsNull
    /\ ~pergroupstate.noTransValue

(***************************************************************************)
(* C13: as stated, once an advance has stored a non-null value into the    *)
(* group's state, noTransValue is false until the state is initialized     *)
(* again.                                                                  *)
(***************************************************************************)
C13_NoValueYetCleared ==
    (\E i \in DOMAIN advLog : advLog[i].stored) => ~pergroupstate.noTransValue

\* C13 as the code has it: the same for a strict transition function or a
\* non-null initial value
C13_NoValueYetClearedStrict ==
    pertrans.fn_strict \/ ~pertrans.initValueIsNull =>
        ((\E i \in DOMAIN advLog : advLog[i].stored) => ~pergroupstate.noTransValue)

\* the copy of the first input was followed by two further advances
C13_Witness ==
    /\ pertrans.fn_strict
    /\ pertrans.initValueIsNull
    /\ Len(advLog) = 3
    /\ advLog[1].stored
    /\ ~advLog[1].called
    /\ ~pergroupstate.noTransValue

(***************************************************************************)
(* C14: Finalize.  A strict final function is not called when the          *)
(* transition state, a direct argument or a null-filler argument is null,  *)
(* and the result is then null; a final function that is not strict is     *)
(* always called; without a final function the result is the transition    *)
(* state, value and null flag.                                             *)
(***************************************************************************)
\* the final function's arguments, as finalResult shows them, hold a null
FinalArgsHoldNull ==
    \/ pergroupstate.transValueIsNull
    \/ \E i \in DOMAIN finalResult.directargs : finalResult.directargs[i].isnull
    \/ peragg.numFinalArgs > peragg.numDirectArgs + 1

C14_Finalize ==
    finalResult.ran =>
        /\ peragg.finalfn_oid /\ peragg.fn_strict /\ FinalArgsHoldNull =>
               ~finalResult.called /\ finalResult.resultIsNull
        /\ peragg.finalfn_oid /\ ~peragg.fn_strict => finalResult.called
        /\ ~peragg.finalfn_oid =>
               /\ ~finalResult.called
               /\ finalResult.resultVal = pergroupstate.transValue
               /\ finalResult.resultIsNull = pergroupstate.transValueIsNull

\* a strict final function was skipped only because of the null filler of
\* an extra argument: the state and the direct argument are non-null
C14_Witness ==
    /\ finalResult.ran
    /\ peragg.finalfn_oid
    /\ peragg.fn_strict
    /\ peragg.numDirectArgs = 1
    /\ peragg.numFinalArgs = 3
    /\ ~pergroupstate.transValueIsNull
    /\ ~finalResult.directargs[1].isnull
    /\ ~finalResult.called

(***************************************************************************)
(* C15: DISTINCT idempotence.  When the buffered inputs of a group are     *)
(* processed, a DISTINCT aggregate is advanced exactly once for each       *)
(* distinct buffered value, in sort order (two nulls are equal, a null     *)
(* and a non-null are not), and its state is that of the same aggregate    *)
(* without DISTINCT over the duplicate-free values; without DISTINCT every *)
(* buffered value is advanced.                                             *)
(***************************************************************************)
\* the tuples of the set S, each once, in sort order
RECURSIVE DistinctSorted(_)
DistinctSorted(S) ==
    IF S = {} THEN <<>>
    ELSE LET m == CHOOSE t \in S :
                      \A u \in S : DatumTupleRank(t, Len(t)) <= DatumTupleRank(u, Len(u))
         IN <<m>> \o DistinctSorted(S \ {m})

\* how often the tuple t occurs in the sequence
Occurrences(seq, t) == Cardinality({i \in DOMAIN seq : seq[i] = t})

\* the state of the aggregate pt without DISTINCT after the inputs seq
PlainAggregate(pt, pg, seq) ==
    process_ordered_aggregate_multi([pt EXCEPT !.numDistinctCols = 0], seq, 1,
                                    OrderedStart(pg, NoFcinfo, <<>>)).pergroupstate

C15_DistinctIdempotence ==
    [][transOp' = "process_ordered_aggregate" =>
          /\ pertrans.numDistinctCols > 0 =>
                 /\ orderedLog'.advanced = DistinctSorted(Range(sortstates.rows))
                 /\ pergroupstate' =
                        PlainAggregate(pertrans, pergroupstate,
                                       DistinctSorted(Range(sortstates.rows)))
          /\ pertrans.numDistinctCols = 0 =>
                 /\ Len(orderedLog'.advanced) = Len(sortstates.rows)
                 /\ \A t \in Range(sortstates.rows) :
                        Occurrences(orderedLog'.advanced, t) =
                            Occurrences(sortstates.rows, t)]_vars

\* a DISTINCT aggregate read a value twice and two nulls from its sort and
\* was advanced once for the value and once for the nulls
C15_Witness ==
    /\ transOp = "process_ordered_aggregate"
    /\ pertrans.numDistinctCols = 1
    /\ Len(orderedLog.read) = 3
    /\ ~orderedLog.read[1][1].isnull
    /\ orderedLog.read[2][1].isnull
    /\ orderedLog.read[3][1].isnull
    /\ Len(orderedLog.advanced) = 2
    /\ Len(advLog) = 2

(***************************************************************************)
(* C16: Dedup correctness.  References to identical aggregates get one     *)
(* PerAgg, aggregates that can share a transition state get one PerTrans,  *)
(* so the node keeps as many transition states per group as for a single   *)
(* reference of each kind, and every reference is given the result slot    *)
(* of its own aggregate.                                                   *)
(***************************************************************************)
\* the references ExecInitAgg has looked up so far
Processed == 1..(initagg.next - 1)

RefOf(i) == initagg.aggs[i].aggref

IsVolatile(i) == RefOf(i).args = VolatileArgs

\* the final function of the aggregate is read-write
ReadWriteFinal(aggfnoid) ==
    AggForm(aggfnoid).readwrite /\ AggForm(aggfnoid).aggfinalfn # 0

\* what decides the transition state of a reference
TransStateOf(i) ==
    <<RefOf(i).args, AggForm(RefOf(i).aggfnoid).aggtransfn,
      AggForm(RefOf(i).aggfnoid).initValueIsNull,
      AggForm(RefOf(i).aggfnoid).initValue>>

PerAggOf(i) == initagg.peragg[initagg.aggs[i].aggno + 1]

C17_ShareableOnly ==
    /\ \A a \in DOMAIN initagg.peragg :
           initagg.peragg[a].shareable = ~ReadWriteFinal(initagg.peragg[a].aggref.aggfnoid)
    /\ \A a, b \in DOMAIN initagg.peragg :
           a # b /\ initagg.peragg[a].transno = initagg.peragg[b].transno =>
               initagg.peragg[a].shareable /\ initagg.peragg[b].shareable
    /\ \A t \in DOMAIN initagg.pertrans :
           initagg.pertrans[t].aggshared =
               (Cardinality({a \in DOMAIN initagg.peragg :
                                initagg.peragg[a].transno = t - 1}) > 1)

\* an aggregate with a read-write final function came between two
\* aggregates that share a transition state and got its own
C17_Witness ==
    /\ Len(initagg.peragg) = 3
    /\ ReadWriteFinal(initagg.peragg[2].aggref.aggfnoid)
    /\ initagg.peragg[1].aggref.args = initagg.peragg[2].aggref.args
    /\ initagg.peragg[1].transno = 0
    /\ initagg.peragg[2].transno = 1
    /\ initagg.peragg[3].transno = 0

(***************************************************************************)
(* C18: Partition-bit exhaustion.  For a spill made at any depth,           *)
(* input_bits + partition_bits is at most 32, partition_bits being cut     *)
(* down otherwise, and every batch put on the worklist has input_bits of   *)
(* at most 32.                                                             *)
(***************************************************************************)
C18_PartitionBits ==
    /\ agg.batch.input_bits + agg.batch.spill.partition_bits <= 32
    /\ \A i \in DOMAIN agg.hash_batches : agg.hash_batches[i].input_bits <= 32
    /\ pc = "respilled" =>
           /\ Len(agg.hash_batches) = agg.batch.spill.n_partitions
           /\ agg.batch.spill.n_partitions = Pow2(agg.batch.spill.partition_bits)
           /\ \A i \in DOMAIN agg.hash_batches :
                  agg.hash_batches[i].input_bits =
                      agg.batch.input_bits + agg.batch.spill.partition_bits

\* a batch that had consumed 31 bits was spilled again: one bit was left
\* for its two partitions
C18_Witness ==
    /\ pc = "respilled"
    /\ agg.batch.input_bits = 31
    /\ agg.batch.spill.partition_bits = 1
    /\ Len(agg.hash_batches) = 2
    /\ agg.hash_batches[2].input_bits = 32

(***************************************************************************)
(* C19: termination.  For every finite child output and every memory       *)
(* budget, repeated calls of ExecAgg eventually return end-of-stream, and  *)
(* the list of spilled batches is empty by then.                           *)
(***************************************************************************)
\* the step with outcome r changes the state
StepMoves(r) ==
    \/ r.w.a # agg
    \/ r.w.t # lts
    \/ r.w.cp # childPos
    \/ (IF r.w.a.fault THEN "crashed" ELSE r.pc) # pc
    \/ ~r.w.a.fault /\ (r.fin # <<>> \/ r.emit # <<>>)

\* at a position of Running the step of that position changes the state:
\* ENABLED <<CallStep>>_vars is pc \in Running, as FairSpec has it
CallStepEnabled ==
    /\ pc = "fill" => StepMoves(agg_fill_hash_table(plan, World))
    /\ pc = "retrieve" => StepMoves(agg_retrieve_hash_table(plan, World))
    /\ pc = "refill" => StepMoves(agg_refill_step(plan, World))
    /\ pc = "direct" => StepMoves(agg_retrieve_direct(plan, World))
    /\ pc = "accum" => StepMoves(agg_retrieve_direct_group(plan, World))

C19_Termination == <>(AtEos /\ agg.hash_batches = <<>>)

\* a run that does not reach end-of-stream has faulted in the executor: no
\* run goes on for ever spilling the same tuples again
C19_EndsOrFaults == <>((AtEos /\ agg.hash_batches = <<>>) \/ pc = "crashed")

\* a run of two hashed grouping sets has faulted while it refilled the hash
\* table from a spilled batch, before any end-of-stream
C19_Witness ==
    /\ pc = "crashed"
    /\ UseHashing(plan) /\ NumHashes(plan) >= 2
    /\ agg.batch.setno = 1
    /\ eos = 0

(***************************************************************************)
(* C20: Rescan restarts the node.  After ExecReScanAgg at any point of the *)
(* output, spilled or not, the calls of ExecAgg that follow return the     *)
(* complete result again, as a first scan of the child's rows does; a      *)
(* hashed aggregation whose table is filled and never spilled, with no     *)
(* parameter changed, walks its tables again and does not read the child.  *)
(***************************************************************************)
\* the scan has finalized and returned what a scan of the child output
\* does: the groups of every hashed grouping set, each once, and the groups
\* of every sorted grouping set in key order, the rows being those of the
\* groups that pass HAVING
ScanComplete ==
    /\ UseHashing(plan) => HashedResultComplete
    /\ \A ph \in 1..Len(plan.sorted) :
           \A setno \in 0..(Len(SetSizes(ph)) - 1) :
               /\ OfSet(fin, ph, setno) =
                      IF Len(input) > 0 THEN ExpectedSorted(ph, setno)
                      ELSE ExpectedEmpty(ph, setno)
               /\ OfSet(out, ph, setno) = SelectSeq(OfSet(fin, ph, setno), PassesHaving)

\* a first scan that reaches end-of-stream is complete
FreshScanComplete == rescans = 0 /\ AtEos => ScanComplete

\* a scan after a rescan that reaches end-of-stream is complete
RescanComplete == rescans > 0 /\ AtEos => ScanComplete

\* the rescan of a filled hash table that never spilled, no parameter
\* changed: the tables, the tapes and the child are left alone, the walk
\* starts again at the first table and the next call does not fill
HashedRewalk ==
    /\ pc = "idle"
    /\ plan.aggstrategy = AGG_HASHED
    /\ agg.table_filled
    /\ ~agg.hash_spilled
    => \A uaf \in BOOLEAN :
           /\ ExecReScanAgg(plan, World, FALSE, uaf).cp = childPos
           /\ ExecReScanAgg(plan, World, FALSE, uaf).t = lts
           /\ ExecReScanAgg(plan, World, FALSE, uaf).a =
                  [agg EXCEPT !.agg_done = FALSE, !.current_set = 0,
                              !.perhash[1].hashiter = 0]
           /\ ExecAggDispatch(plan, ExecReScanAgg(plan, World, FALSE, uaf).a)
                  = "retrieve"

C20_RescanRestarts ==
    /\ rescans > 0 => pc # "crashed"
    /\ RescanComplete
    /\ HashedRewalk

\* a mixed aggregation spilled, read its batches back and returned
\* end-of-stream; the rescan that followed faulted on the per-group states
\* of the sorted grouping sets, no tape set being closed twice
C20_Witness ==
    /\ rescans > 0
    /\ pc = "crashed"
    /\ plan.aggstrategy = AGG_MIXED
    /\ lastRet = "none"
    /\ ~ClosedTwice(lts)
    /\ \E setno \in 1..MaxSets(plan) : agg.pergroups[setno] = NullPG

(***************************************************************************)
(* C21: ExecInitAgg rejects the flags BACKWARD and MARK: called with       *)
(* either of them it fails and makes no node.                              *)
(***************************************************************************)
C21_FlagsRejected ==
    pc # "init" /\ eflags \cap {EXEC_FLAG_BACKWARD, EXEC_FLAG_MARK} # {} =>
        pc = "crashed"

\* the same of a build with assertions
C21_FlagsRejectedAsserting ==
    /\ pc # "init" /\ assert_checking
    /\ eflags \cap {EXEC_FLAG_BACKWARD, EXEC_FLAG_MARK} # {}
    => pc = "crashed"

\* a build without assertions has made a node for a backward scan
C21_Witness ==
    /\ pc = "idle"
    /\ ~assert_checking
    /\ EXEC_FLAG_BACKWARD \in eflags
    /\ agg = ExecInitAgg(plan)

(***************************************************************************)
(* C22: whenever the scan of the hash tables or the refill resets or       *)
(* advances the iterator of the table of a grouping set, that table        *)
(* exists.                                                                 *)
(***************************************************************************)
\* the table of the hashed grouping set setno exists
TableExists(setno) == agg.perhash[setno + 1].hashtable.alive

\* the walk of the table of the current set is at its end
WalkAtEnd ==
    agg.perhash[agg.current_set + 1].hashiter
        >= Len(agg.perhash[agg.current_set + 1].hashtable.ents)

\* the tape of the batch being read back is at its end
BatchAtEnd ==
    /\ lts[agg.batch.lts].closed = 0
    /\ TupIsNull(hash_read_spilled(lts, agg.batch.lts, agg.batch.input_tape).tuple)

C22_IteratorTableExists ==
    /\ pc = "retrieve" => TableExists(agg.current_set)
    /\ pc = "retrieve" /\ TableExists(agg.current_set) /\ WalkAtEnd
          /\ agg.current_set + 1 < NumHashes(plan)
          => TableExists(agg.current_set + 1)
    /\ pc = "refill" /\ BatchAtEnd => TableExists(0)
    /\ pc = "fill" /\ childPos >= Len(input) => TableExists(0)

\* the batch of set 0 was read back and its table walked: the walk is about
\* to go on to the table of set 1, which the refill destroyed
C22_Witness ==
    /\ pc = "retrieve"
    /\ agg.batch.setno = 0
    /\ agg.batch.lts # 0
    /\ agg.current_set = 0
    /\ WalkAtEnd
    /\ NumHashes(plan) = 2
    /\ ~TableExists(1)

(***************************************************************************)
(* C23: across any sequence of ExecAgg, ExecReScanAgg and ExecEndAgg every *)
(* logical tape set made for spilling is closed exactly once: never        *)
(* twice, and none is left open after ExecEndAgg or ExecReScanAgg.         *)
(***************************************************************************)
\* the tape sets the node holds: those of the spills of the fill in
\* progress and those of lts_list
HeldTapeSets ==
    ({agg.hash_spills[i].lts : i \in DOMAIN agg.hash_spills} \ {0})
        \cup Range(agg.lts_list)

\* an open tape set is one the node holds, and none is open after ExecEndAgg
TapeSetsNotLeaked ==
    pc # "crashed" =>
        /\ \A id \in DOMAIN lts : lts[id].closed = 0 => id \in HeldTapeSets
        /\ pc = "ended" => \A id \in DOMAIN lts : lts[id].closed >= 1

C23_TapeSetsClosedOnce ==
    /\ \A id \in DOMAIN lts : lts[id].closed <= 1
    /\ TapeSetsNotLeaked

\* the node was ended while four batches of one tape set waited: the tape
\* set was closed for each of them and again for lts_list
C23_Witness ==
    /\ pc = "ended"
    /\ rescans = 0
    /\ Len(lts) = 1
    /\ lts[1].closed = 5

(***************************************************************************)
(* C24: in a mixed aggregation the refill of the hash table from a batch   *)
(* leaves the per-group states of the sorted grouping sets allocated, so   *)
(* that ExecReScanAgg can reset them after any number of refills.          *)
(***************************************************************************)
C24_PergroupsAllocated ==
    plan.aggstrategy = AGG_MIXED /\ pc # "crashed" =>
        \A setno \in 1..MaxSets(plan) : agg.pergroups[setno] # NullPG

\* a mixed aggregation has read a batch back and returned end-of-stream;
\* the pointers to the per-group states of its sorted sets are null
C24_Witness ==
    /\ plan.aggstrategy = AGG_MIXED
    /\ AtEos
    /\ rescans = 0
    /\ agg.batch.lts # 0
    /\ \A setno \in 1..MaxSets(plan) : agg.pergroups[setno] = NullPG

(***************************************************************************)
(* C25: whenever the transition expression of the hashed grouping sets is  *)
(* about to be evaluated (first fill from the child, refill from a batch,  *)
(* fill from the child after a rescan) it was compiled for the slot type   *)
(* of the rows it is given, and it is the variant compiled for spilling    *)
(* whenever a lookup can miss.                                             *)
(***************************************************************************)
\* the transition expression the hashed grouping sets are advanced with
HashedEvalTrans == agg.evaltrans[IF plan.aggstrategy = AGG_HASHED THEN 0 ELSE 1]

\* the next step gives a row of the child to the expression
FeedsChildRow ==
    /\ UseHashing(plan)
    /\ childPos < Len(input)
    /\ \/ pc = "fill"
       \/ pc \in {"direct", "accum"} /\ agg.current_phase = 1

\* the next step gives a tuple of the batch's tape to the expression
FeedsSpilledTuple ==
    /\ pc = "refill"
    /\ lts[agg.batch.lts].closed = 0
    /\ ~TupIsNull(hash_read_spilled(lts, agg.batch.lts, agg.batch.input_tape).tuple)

C25_CompiledForSlotType ==
    /\ FeedsChildRow => HashedEvalTrans.ops = ExecInitAgg(plan).outerops
    /\ FeedsSpilledTuple => HashedEvalTrans.ops = "TTSOpsMinimalTuple"

C25_SpillingAware ==
    (FeedsChildRow \/ FeedsSpilledTuple) /\ agg.hash_no_new_groups
        => HashedEvalTrans.spilled

C25_ExpressionFitsInput == C25_CompiledForSlotType /\ C25_SpillingAware

\* after a scan that spilled and a rescan during which no tape set was
\* closed twice, the child's rows are given to the expression compiled for
\* the minimal tuples of the tapes
C25_Witness ==
    /\ pc = "fill"
    /\ rescans = 1
    /\ childPos < Len(input)
    /\ ~ClosedTwice(lts)
    /\ ExecInitAgg(plan).outerops # "TTSOpsMinimalTuple"
    /\ HashedEvalTrans.ops = "TTSOpsMinimalTuple"

(***************************************************************************)
(* C26: while hash_no_new_groups is set lookup_hash_entry makes no entry:  *)
(* it returns the entry of the key or null, and the entries of the tables  *)
(* stay as they are until the tables are built again (by a refill or by a  *)
(* rescan), which clears the flag.                                         *)
(***************************************************************************)
\* the keys of the entries of the hash tables, table by table
TableKeys(a) ==
    [i \in DOMAIN a.perhash |->
        [j \in DOMAIN a.perhash[i].hashtable.ents |-> a.perhash[i].hashtable.ents[j].key]]

\* the tables have been built again: they are empty and the flag is clear
TablesRebuilt(a) ==
    /\ ~a.hash_no_new_groups
    /\ a.hash_ngroups_current = 0
    /\ \A i \in DOMAIN a.perhash : a.perhash[i].hashtable.ents = <<>>

\* the keys a row of the child can have in the grouping set setno
SetKeys(setno) == {[i \in 1..Len(plan.hashes[setno + 1]) |-> v[i]] : v \in [1..2 -> Vals]}

\* what lookup_hash_entry does in this state, for every set and key
LookupOnlyFinds ==
    \A setno \in 0..(NumHashes(plan) - 1) : \A key \in SetKeys(setno) :
        TableExists(setno) =>
            /\ lookup_hash_entry(plan, select_current_set(agg, setno), key).a
                   = select_current_set(agg, setno)
            /\ lookup_hash_entry(plan, select_current_set(agg, setno), key).pergroup
                   = FindEntry(agg.perhash[setno + 1].hashtable.ents, key)

C26_NoNewGroups ==
    /\ [](UseHashing(plan) /\ agg.hash_no_new_groups => LookupOnlyFinds)
    /\ [][UseHashing(plan) /\ agg.hash_no_new_groups =>
              \/ /\ TableKeys(agg') = TableKeys(agg)
                 /\ agg'.hash_ngroups_current = agg.hash_ngroups_current
              \/ TablesRebuilt(agg')]_vars

\* the flag is set, the table holds a group, and the lookup of the last row
\* has returned null: the row went to a tape
C26_Witness ==
    /\ pc = "fill"
    /\ agg.hash_no_new_groups
    /\ agg.hash_pergroup = <<0>>
    /\ Len(agg.perhash[1].hashtable.ents) = 1
    /\ agg.hash_ngroups_current = 1
    /\ agg.hash_spills # <<>>
    /\ agg.hash_spills[1].partitions # <<>>

(***************************************************************************)
(* C27: hash_no_new_groups is raised exactly by the step that has made a   *)
(* new entry after which the bytes allocated exceed hash_mem_limit or the  *)
(* number of groups exceeds hash_ngroups_limit; the row that made the      *)
(* entry is aggregated into it and is not spilled; hash_spills is          *)
(* allocated and the expression compiled for spilling when hash_spilled    *)
(* is not yet set, and left as they are otherwise.                         *)
(***************************************************************************)
\* the step makes a new entry in the table of the set i - 1
Inserted(i) ==
    Len(agg'.perhash[i].hashtable.ents) > Len(agg.perhash[i].hashtable.ents)

\* the condition of lookup_hash_entry, on the counters of the AggState a
OverLimit(a) ==
    /\ a.hash_ngroups_current > 0
    /\ \/ a.hash_mem_limit # -1 /\ a.hash_mem_current > a.hash_mem_limit
       \/ a.hash_ngroups_limit # -1 /\ a.hash_ngroups_current > a.hash_ngroups_limit

\* the step raises hash_no_new_groups
EntersSpillMode ==
    UseHashing(plan) /\ ~agg.hash_no_new_groups /\ agg'.hash_no_new_groups

SpillModeExactly ==
    UseHashing(plan) /\ ~agg.hash_no_new_groups =>
        (agg'.hash_no_new_groups <=>
            OverLimit(agg') /\ \E i \in DOMAIN agg.perhash : Inserted(i))

\* the entry the step has made in the table of the set i - 1
NewEntry(i) == agg'.perhash[i].hashtable.ents[Len(agg'.perhash[i].hashtable.ents)]

CrossingRowKept ==
    EntersSpillMode /\ ~agg'.fault =>
        \A i \in DOMAIN agg.perhash :
            Inserted(i) =>
                /\ NewEntry(i).additional.n = 1
                /\ \E r \in 1..Len(input) :
                       /\ NewEntry(i).additional.rows = {r}
                       /\ NewEntry(i).key = KeyOf(ChildRow(r), plan.hashes[i])
                /\ SpilledCount(lts', i - 1) = SpilledCount(lts, i - 1)

RecompiledOnFirstEntry ==
    EntersSpillMode =>
        IF agg.hash_spilled
        THEN /\ agg'.evaltrans = agg.evaltrans
             /\ agg'.hash_spills = agg.hash_spills
        ELSE /\ agg'.hash_spilled
             /\ agg'.evaltrans[IF plan.aggstrategy = AGG_HASHED THEN 0 ELSE 1]
                    = ExecBuildAggTrans(plan.aggstrategy = AGG_MIXED, TRUE, TRUE,
                                        agg.outerops)

C27_SpillModeEntry ==
    [][SpillModeExactly /\ CrossingRowKept /\ RecompiledOnFirstEntry]_vars

\* spill mode has been entered a second time, while a batch is read back:
\* the table of the batch holds the group of the tuple that crossed the limit
C27_Witness ==
    /\ pc = "refill"
    /\ agg.hash_spilled
    /\ agg.hash_no_new_groups
    /\ agg.batch.lts # 0
    /\ OverLimit(agg)
    /\ agg.hash_pergroup[agg.batch.setno + 1] = agg.hash_ngroups_current
    /\ agg.hash_spills = <<>>

(***************************************************************************)
(* C28: hash_spill_finish, for the spills of the first pass and for the    *)
(* spill of a batch read back, appends one batch for each partition that   *)
(* holds tuples and none for a partition that holds none; the batch has    *)
(* the partition's tape, the grouping set, the number of tuples written to *)
(* the partition, and input_bits + partition_bits.                         *)
(***************************************************************************)
\* the batches the claim has hash_spill_finish make of the partitions i..
\* of a spill; all: of the empty partitions too
RECURSIVE BatchesOfSpill(_, _, _, _, _)
BatchesOfSpill(spill, setno, input_bits, i, all) ==
    IF i > spill.n_partitions THEN <<>>
    ELSE (IF all \/ spill.ntuples[i] > 0
          THEN <<[input_tape |-> spill.partitions[i],
                  input_bits |-> input_bits + spill.partition_bits,
                  input_tuples |-> spill.ntuples[i],
                  setno |-> setno,
                  spill |-> [NoSpill EXCEPT !.lts = spill.lts],
                  lts |-> spill.lts]>>
          ELSE <<>>)
         \o BatchesOfSpill(spill, setno, input_bits, i + 1, all)

\* the step ends the first pass, whose spills it finishes; the last row may
\* have been spilled by the same step, so the partitions are those of the
\* tapes after the step
FinishesInitialSpills == agg.hash_spills # <<>> /\ agg'.hash_spills = <<>>

\* the step ends the reading of a batch, whose spill it finishes
FinishesBatchSpill == pc = "refill" /\ pc' = "retrieve"

\* the tape of the batch b, after the step
TapeOf(b) == lts'[b.lts].tapes[b.input_tape + 1]

\* the batch b waits for the tape t of the tape set id
BatchOn(b, id, t) == b.lts = id /\ b.input_tape = t - 1

\* what the batch b records of its partition, a partition of a first spill
RecordsPartition(b) ==
    /\ b.input_tuples = Len(TapeOf(b).data)
    /\ TapeOf(b).rpos = 0
    /\ \A k \in DOMAIN TapeOf(b).data :
           {c \in 1..2 : TapeOf(b).data[k].tuple.c[c] # 0} = Range(plan.hashes[b.setno + 1])
    /\ b.input_bits = 0 + my_log2(Len(lts'[b.lts].tapes))
    /\ b.spill = [NoSpill EXCEPT !.lts = b.lts]

InitialBatches(all) ==
    /\ \A id \in DOMAIN lts' : \A t \in DOMAIN lts'[id].tapes :
           Cardinality({j \in DOMAIN agg'.hash_batches :
                           BatchOn(agg'.hash_batches[j], id, t)})
               = IF all \/ lts'[id].tapes[t].data # <<>> THEN 1 ELSE 0
    /\ \A j \in DOMAIN agg'.hash_batches : RecordsPartition(agg'.hash_batches[j])

BatchesAppended(all) ==
    /\ FinishesInitialSpills => InitialBatches(all)
    /\ FinishesBatchSpill =>
           agg'.hash_batches = agg.hash_batches \o
               BatchesOfSpill(agg.batch.spill, agg.batch.setno, agg.batch.input_bits,
                              1, all)

C28_BatchPerNonEmptyPartition == [][BatchesAppended(FALSE)]_vars

\* what the code does: a batch for every partition
C28_BatchPerPartition == [][BatchesAppended(TRUE)]_vars

\* the first pass has ended and a batch of a partition without tuples waits
C28_Witness ==
    /\ pc = "retrieve"
    /\ agg.table_filled
    /\ agg.batch.lts = 0
    /\ \E i \in DOMAIN agg.hash_batches :
           /\ agg.hash_batches[i].input_tuples = 0
           /\ agg.hash_batches[i].input_bits = 2
           /\ lts[agg.hash_batches[i].lts].tapes[agg.hash_batches[i].input_tape + 1].data
                  = <<>>

(***************************************************************************)
(* C29: every level of the recursion consumes at least 2 further bits of   *)
(* the hash: a batch made of the spill of a parent batch that was read     *)
(* back has input_bits at least 2 above the parent's.                      *)
(***************************************************************************)
C29_TwoBitsPerLevel ==
    pc = "respilled" =>
        \A i \in DOMAIN agg.hash_batches :
            agg.hash_batches[i].input_bits >= agg.batch.input_bits + 2

\* as the code has it: 2 bits or more while the parent has left them, and
\* the bits that remain, 1 or none, once the parent has consumed 31 or 32
C29_BitsPerLevel ==
    pc = "respilled" =>
        /\ agg.hash_batches # <<>>
        /\ \A i \in DOMAIN agg.hash_batches :
               /\ agg.hash_batches[i].input_bits
                      >= agg.batch.input_bits + Min(2, HashBits - agg.batch.input_bits)
               /\ agg.hash_batches[i].input_bits <= HashBits
               /\ agg.batch.input_bits <= HashBits - 2
                      => agg.hash_batches[i].input_bits >= agg.batch.input_bits + 2

\* a batch that had consumed all 32 bits was spilled again: its one
\* partition is cut on no further bit
C29_Witness ==
    /\ pc = "respilled"
    /\ agg.batch.input_bits = HashBits
    /\ agg.batch.spill.partition_bits = 0
    /\ Len(agg.hash_batches) = 1
    /\ agg.hash_batches[1].input_bits = HashBits

(***************************************************************************)
(* C30: the number of partitions of a spill is, for every estimate of the  *)
(* groups, size of an entry, work_mem and input_bits, at least 4, at most  *)
(* 256, and at most floor(work_mem * 0.25 / BLCKSZ), work_mem in bytes.    *)
(***************************************************************************)
\* floor(work_mem * 0.25 / BLCKSZ) for the work_mem of the plan, in kB
PartitionCap == (plan.mem.work_mem * 1024) \div (4 * BLCKSZ)

\* the spills hash_spill_init has set up and the input_bits it was given
SpillsSetUp ==
    {[spill |-> agg.hash_spills[i], input_bits |-> 0] :
        i \in {j \in DOMAIN agg.hash_spills : agg.hash_spills[j].partitions # <<>>}}
    \cup (IF agg.batch.spill.partitions # <<>>
          THEN {[spill |-> agg.batch.spill, input_bits |-> agg.batch.input_bits]}
          ELSE {})

C31_PowerOfTwoPartitions ==
    \A s \in SpillsSetUp :
        /\ s.spill.partition_bits \in 0..8
        /\ s.spill.n_partitions = Pow2(s.spill.partition_bits)
        /\ Len(s.spill.partitions) = s.spill.n_partitions
        /\ Len(s.spill.ntuples) = s.spill.n_partitions
        /\ Len(lts[s.spill.lts].tapes) >= s.spill.n_partitions
        /\ \A i \in 1..s.spill.n_partitions :
               /\ s.spill.partitions[i] < Len(lts[s.spill.lts].tapes)
               /\ \A j \in 1..s.spill.n_partitions :
                      i # j => s.spill.partitions[i] # s.spill.partitions[j]

\* a batch that had consumed 29 bits was spilled again with 8 partitions,
\* whose tapes follow the tape of the batch in its tape set
C31_Witness ==
    /\ pc = "respilled"
    /\ agg.batch.input_bits = 29
    /\ agg.batch.spill.partition_bits = 3
    /\ agg.batch.spill.partitions = <<1, 2, 3, 4, 5, 6, 7, 8>>
    /\ Len(agg.batch.spill.ntuples) = 8

(***************************************************************************)
(* C32: hash_spill_tuple puts a tuple in the partition numbered by the     *)
(* partition_bits bits of its hash that follow the input_bits bits already *)
(* consumed, (hash << input_bits) >> (32 - partition_bits) on 32 bits, and *)
(* in partition 0 when partition_bits is 0; the number is below            *)
(* n_partitions, and one counter of the spill goes up by one.              *)
(***************************************************************************)
\* the number that the nbits bits of hash from the bit first on spell
RECURSIVE WindowBits(_, _, _)
WindowBits(hash, first, nbits) ==
    IF nbits = 0 THEN 0
    ELSE 2 * WindowBits(hash, first, nbits - 1)
         + (IF (first + nbits - 1) \in hash THEN 1 ELSE 0)

\* the tuple this step reads from the tape of the batch
ReadTuple == hash_read_spilled(lts, agg.batch.lts, agg.batch.input_tape)

\* the step reads a tuple of the batch and spills it again
SpillsBatchTuple ==
    /\ pc = "refill" /\ pc' = "refill"
    /\ ~TupIsNull(ReadTuple.tuple)
    /\ agg'.hash_pergroup[agg.batch.setno + 1] = 0

\* the counter of partition i before the step, the spill being set up by
\* the step when it has no partitions yet
CounterBefore(i) ==
    IF agg.batch.spill.partitions = <<>> THEN 0 ELSE agg.batch.spill.ntuples[i]

\* the tape of partition i before the step
TapeBefore(i) ==
    IF agg.batch.spill.partitions = <<>> THEN NoTape
    ELSE lts[agg.batch.lts].tapes[agg.batch.spill.partitions[i] + 1]

\* the partition the claim has the tuple go to
ClaimedPartition ==
    WindowBits(ReadTuple.hash, agg.batch.input_bits + 1, agg'.batch.spill.partition_bits)

RoutedByWindow ==
    SpillsBatchTuple =>
        /\ ClaimedPartition \in 0..(agg'.batch.spill.n_partitions - 1)
        /\ \A i \in 1..agg'.batch.spill.n_partitions :
               /\ agg'.batch.spill.ntuples[i]
                      = CounterBefore(i) + (IF i = ClaimedPartition + 1 THEN 1 ELSE 0)
               /\ lts'[agg.batch.lts].tapes[agg'.batch.spill.partitions[i] + 1].data
                      = IF i = ClaimedPartition + 1
                        THEN Append(TapeBefore(i).data, ReadTuple)
                        ELSE TapeBefore(i).data

C32_PartitionRouting == [][RoutedByWindow]_vars

\* a batch that had consumed 29 bits: the tuple whose hash has the bits 30
\* and 32 set has gone to partition 5 of 8, bits 1 and 2 playing no part
C32_Witness ==
    /\ pc = "refill"
    /\ agg.batch.input_bits = 29
    /\ agg.batch.spill.n_partitions = 8
    /\ agg.batch.spill.ntuples[6] = 1
    /\ lts[1].tapes[agg.batch.spill.partitions[6] + 1].data
           = << [hash |-> {1, 2, 29, 30, 32}, tuple |-> [id |-> 2, c |-> <<1, 2>>]] >>

(***************************************************************************)
(* C33: the batches of all hashed grouping sets wait in one list that is   *)
(* worked first in, first out: a new batch goes to the tail, the refill    *)
(* takes the head, so the batches a batch is spilled into again come after *)
(* every batch that was waiting.                                           *)
(***************************************************************************)
\* the batches waiting from the k-th on
BatchesFrom(k) == SubSeq(agg.hash_batches, k, Len(agg.hash_batches))

\* the step leaves the waiting batches in place and adds behind them
AppendsAtTail ==
    /\ Len(agg'.hash_batches) >= Len(agg.hash_batches)
    /\ SubSeq(agg'.hash_batches, 1, Len(agg.hash_batches)) = agg.hash_batches

\* the step takes the head to refill and leaves the others in their order
TakesHead ==
    /\ agg.hash_batches # <<>>
    /\ pc' = "refill"
    /\ agg'.batch = agg.hash_batches[1]
    /\ agg'.hash_batches = BatchesFrom(2)

\* a rescan or the end of the node drops the list
DropsBatches ==
    /\ rescans' # rescans \/ pc' = "ended"
    /\ agg'.hash_batches = <<>>

\* the place where tape t of tape set l waits in the list q, 0 if nowhere
PlaceIn(q, l, t) ==
    IF \E i \in 1..Len(q) : q[i].lts = l /\ q[i].input_tape = t
    THEN CHOOSE i \in 1..Len(q) : q[i].lts = l /\ q[i].input_tape = t
    ELSE 0

\* every batch that waits before and after the step is still ahead of
\* every batch the step created
NewBehindOld ==
    \A i \in 1..Len(agg'.hash_batches), j \in 1..Len(agg'.hash_batches) :
        LET pi == PlaceIn(agg.hash_batches, agg'.hash_batches[i].lts,
                          agg'.hash_batches[i].input_tape)
            pj == PlaceIn(agg.hash_batches, agg'.hash_batches[j].lts,
                          agg'.hash_batches[j].input_tape)
        IN  /\ (pi # 0 /\ pj = 0) => i < j
            /\ (pi # 0 /\ pj # 0 /\ pi < pj) => i < j

C33_FifoStep ==
    /\ AppendsAtTail \/ TakesHead \/ DropsBatches
    /\ (rescans' = rescans /\ pc' # "ended") => NewBehindOld
    /\ (rescans' = rescans /\ pc' # "ended"
            /\ <<agg'.batch.lts, agg'.batch.input_tape>>
                   # <<agg.batch.lts, agg.batch.input_tape>>)
           => TakesHead

C33_FifoBatches == [][C33_FifoStep]_vars

\* a batch of the first level is being refilled, a batch of the first level
\* still waits, and behind it wait the batches an earlier batch was spilled
\* into again
C33_Witness ==
    /\ pc = "refill"
    /\ agg.batch.input_bits = 2
    /\ Len(agg.hash_batches) >= 2
    /\ agg.hash_batches[1].input_bits = 2
    /\ agg.hash_batches[Len(agg.hash_batches)].input_bits > 2

(***************************************************************************)
(* C34: at a group boundary of a sorted phase, the last grouping set       *)
(* projected being set k, the transition states of the sets 0..k and no    *)
(* others get their initial state before the next group is accumulated,    *)
(* the sets k+1.. keep what they have accumulated; and set k+1 is          *)
(* projected next only if the row before and the row pending differ on the *)
(* columns of its prefix, or the input has ended.                          *)
(***************************************************************************)
\* the step starts the next group of the phase after set k was projected
StartsNextGroup ==
    /\ pc = "direct" /\ pc' = "accum"
    /\ agg.projected_set >= 0
    /\ agg'.current_phase = agg.current_phase

\* the step projects the set after the one projected last, in the phase
ProjectsNextSet ==
    /\ pc = "direct" /\ pc' \in {"direct", "idle"}
    /\ agg.projected_set >= 0
    /\ agg'.current_phase = agg.current_phase
    /\ Len(fin') = Len(fin) + 1
    /\ fin'[Len(fin')].set = agg.projected_set + 1

\* the row before and the row pending differ on the prefix of set setno
DifferOnPrefix(setno) ==
    \E j \in 1..plan.sorted[agg.current_phase].gsets[setno + 1] :
        agg.firstSlot.c[plan.sorted[agg.current_phase].grpColIdx[j]]
            # agg.outertuple.c[plan.sorted[agg.current_phase].grpColIdx[j]]

ResetsFinerSets ==
    /\ StartsNextGroup =>
           \A setno \in 0..(Len(plan.sorted[agg.current_phase].gsets) - 1) :
               agg'.pergroups[setno + 1] =
                   IF setno <= agg.projected_set THEN InitPG
                   ELSE agg.pergroups[setno + 1]
    /\ ProjectsNextSet =>
           agg.input_done \/ DifferOnPrefix(agg.projected_set + 1)

C34_BoundaryReset == [][ResetsFinerSets]_vars

\* a phase of two grouping sets: a group of set 0 has ended within a group
\* of set 1, set 0 starts anew and set 1 keeps the row it has absorbed
C34_Witness ==
    /\ pc = "accum"
    /\ agg.current_phase >= 1
    /\ Len(plan.sorted[agg.current_phase].gsets) = 2
    /\ ~agg.input_done
    /\ agg.pergroups[1] = InitPG
    /\ agg.pergroups[2].n >= 1

(***************************************************************************)
(* C35: the phases run in the order 1, 2, ..., N and then, in a mixed      *)
(* aggregation, 0; the phase changes only when the input of the phase is   *)
(* exhausted and its grouping sets are projected; a sorted phase i >= 2    *)
(* reads from the sorter the multiset of rows phase i - 1 has read, so     *)
(* every sorted phase aggregates all the rows of the child.                *)
(***************************************************************************)
\* how often the columns c occur among the rows of a sequence
OccursIn(rows, c) == Cardinality({i \in DOMAIN rows : rows[i].c = c})

\* the rows the child yields
ChildRows == [i \in 1..Len(input) |-> ChildRow(i)]

\* the rows the current phase has read so far
RowsRead ==
    IF agg.sort_in.active THEN SubSeq(agg.sort_in.rows, 1, agg.sort_in.rpos)
    ELSE [i \in 1..Min(childPos, Len(input)) |-> ChildRow(i)]

\* the current phase has read its input to the end
InputExhausted ==
    IF agg.sort_in.active THEN agg.sort_in.rpos = Len(agg.sort_in.rows)
    ELSE childPos >= Len(input)

\* a batch is being refilled: in a mixed aggregation agg_refill_hash_table
\* has current_phase at 1 while it reads the batch, to advance with the
\* expression of phase 1, and puts it back to 0; no phase is entered
Refilling(at) == at = "refill"

\* the phase changes in the order of the phases, at the end of a phase
PhaseChangeInOrder ==
    (agg'.current_phase # agg.current_phase /\ rescans' = rescans
            /\ ~Refilling(pc) /\ ~Refilling(pc')) =>
        /\ agg.current_phase >= 1
        /\ \/ /\ agg.current_phase < Len(plan.sorted)
              /\ agg'.current_phase = agg.current_phase + 1
           \/ /\ agg.current_phase = Len(plan.sorted)
              /\ plan.aggstrategy = AGG_MIXED
              /\ agg'.current_phase = 0
        /\ agg.input_done
        /\ agg.projected_set >= Len(plan.sorted[agg.current_phase].gsets) - 1
        /\ InputExhausted
        /\ \A c \in Range(input) : OccursIn(RowsRead, c) = OccursIn(ChildRows, c)

\* phase 1 reads the child, a later sorted phase reads from the sorter the
\* rows of the child; the sorter of the next phase holds the rows read
SorterHoldsChildRows ==
    /\ agg.current_phase = 1 => ~agg.sort_in.active
    /\ (Refilling(pc) /\ plan.aggstrategy = AGG_MIXED) =>
           agg.table_filled /\ agg.current_phase = 1
    /\ agg.current_phase >= 2 =>
           /\ agg.sort_in.active
           /\ Len(agg.sort_in.rows) = Len(input)
           /\ \A c \in Range(input) :
                  OccursIn(agg.sort_in.rows, c) = OccursIn(ChildRows, c)
    /\ (agg.current_phase >= 1 /\ agg.current_phase < Len(plan.sorted)
            /\ ~Refilling(pc)) =>
           /\ agg.sort_out.active
           /\ Len(agg.sort_out.rows) = Len(RowsRead)
           /\ \A c \in Range(input) :
                  OccursIn(agg.sort_out.rows, c) = OccursIn(RowsRead, c)

C35_PhaseOrder == [](SorterHoldsChildRows) /\ [][PhaseChangeInOrder]_vars

\* the second of two sorted phases has read from the sorter, in another
\* order than the child gave them, the three rows of the child
C35_Witness ==
    /\ Len(plan.sorted) = 2
    /\ agg.current_phase = 2
    /\ Len(input) = 3
    /\ agg.sort_in.rpos = 3
    /\ agg.sort_in.rows[1].id # 1
    /\ agg.input_done

(***************************************************************************)
(* C36: an aggregate reference reuses a PerAgg that is installed if and    *)
(* only if it contains no volatile function and its inputs (input          *)
(* collation, transition type, star and variadic flags, kind, arguments,   *)
(* ORDER BY, DISTINCT, FILTER) and its function (function OID, result      *)
(* type and collation, direct arguments) equal those of the reference of   *)
(* that PerAgg; otherwise a new PerAgg is installed.                       *)
(***************************************************************************)
\* the reference ExecInitAgg looks up in this round
NewRef == initagg.aggs[initagg.next].aggref

\* the reference of the installed PerAgg a equals the new one in all that
\* find_compatible_peragg compares
IdenticalRef(a) ==
    /\ initagg.peragg[a].aggref.args = NewRef.args
    /\ initagg.peragg[a].aggref.aggfnoid = NewRef.aggfnoid

\* the round gives the reference a PerAgg that was installed before
ReusesPerAgg ==
    /\ Len(initagg'.peragg) = Len(initagg.peragg)
    /\ initagg'.aggs[initagg.next].aggno \in 0..(Len(initagg.peragg) - 1)

\* the round installs a PerAgg for the reference, behind the others
InstallsPerAgg ==
    /\ Len(initagg'.peragg) = Len(initagg.peragg) + 1
    /\ SubSeq(initagg'.peragg, 1, Len(initagg.peragg)) = initagg.peragg
    /\ initagg'.peragg[Len(initagg'.peragg)].aggref = NewRef
    /\ initagg'.aggs[initagg.next].aggno = Len(initagg.peragg)

ReuseIffIdentical ==
    initagg'.next = initagg.next + 1 =>
        /\ ReusesPerAgg <=>
               /\ NewRef.args # VolatileArgs
               /\ \E a \in DOMAIN initagg.peragg : IdenticalRef(a)
        /\ ReusesPerAgg =>
               /\ IdenticalRef(initagg'.aggs[initagg.next].aggno + 1)
               /\ initagg'.peragg = initagg.peragg
               /\ initagg'.pertrans = initagg.pertrans
        /\ ~ReusesPerAgg => InstallsPerAgg

C36_PerAggReuse == [][ReuseIffIdentical]_vars

\* three references: the second has the inputs of the first and another
\* function and got a PerAgg, the third is the first again and reuses its
C36_Witness ==
    /\ initagg.next = 4
    /\ RefOf(1).args # VolatileArgs
    /\ RefOf(2).args = RefOf(1).args
    /\ RefOf(2).aggfnoid # RefOf(1).aggfnoid
    /\ RefOf(3) = RefOf(1)
    /\ initagg.aggs[1].aggno = 0
    /\ initagg.aggs[2].aggno = 1
    /\ initagg.aggs[3].aggno = 0
    /\ Len(initagg.peragg) = 2

(***************************************************************************)
(* C37: a new PerAgg is bound to a PerTrans that exists if and only if the *)
(* new aggregate is shareable and a shareable PerAgg with the same inputs  *)
(* uses a PerTrans with the same transition function, transition type,     *)
(* serialization functions and initial value (both null, or both not null  *)
(* and equal); that PerTrans is then marked shared, and a PerTrans is      *)
(* marked shared exactly when more than one PerAgg references it.          *)
(***************************************************************************)
\* the PerTrans t has the transition function and the initial value of the
\* aggregate aggfnoid
TransMatches(t, aggfnoid) ==
    /\ initagg.pertrans[t].transfn_oid = AggForm(aggfnoid).aggtransfn
    /\ initagg.pertrans[t].initValueIsNull = AggForm(aggfnoid).initValueIsNull
    /\ ~AggForm(aggfnoid).initValueIsNull =>
           initagg.pertrans[t].initValue = AggForm(aggfnoid).initValue

\* a shareable PerAgg with the inputs of the new reference uses a PerTrans
\* that matches the new aggregate, which is shareable
SharingCandidate ==
    /\ ~ReadWriteFinal(NewRef.aggfnoid)
    /\ \E a \in DOMAIN initagg.peragg :
           /\ initagg.peragg[a].shareable
           /\ initagg.peragg[a].aggref.args = NewRef.args
           /\ TransMatches(initagg.peragg[a].transno + 1, NewRef.aggfnoid)

\* the round binds the new PerAgg to a PerTrans that existed
BindsExistingPerTrans ==
    /\ Len(initagg'.pertrans) = Len(initagg.pertrans)
    /\ initagg'.peragg[Len(initagg'.peragg)].transno \in 0..(Len(initagg.pertrans) - 1)

\* the PerTrans the new PerAgg uses matches it and is marked shared
BoundAndMarked ==
    /\ TransMatches(initagg'.peragg[Len(initagg'.peragg)].transno + 1, NewRef.aggfnoid)
    /\ initagg'.pertrans[initagg'.peragg[Len(initagg'.peragg)].transno + 1].aggshared
    /\ \E a \in DOMAIN initagg.peragg :
           /\ initagg.peragg[a].transno = initagg'.peragg[Len(initagg'.peragg)].transno
           /\ initagg.peragg[a].shareable
           /\ initagg.peragg[a].aggref.args = NewRef.args

\* a PerTrans is marked shared exactly when more than one PerAgg uses it
MarkedSharedExactly ==
    \A t \in DOMAIN initagg.pertrans :
        initagg.pertrans[t].aggshared <=>
            \E a, b \in DOMAIN initagg.peragg :
                a # b /\ initagg.peragg[a].transno = t - 1
                      /\ initagg.peragg[b].transno = t - 1

BindIffCandidate ==
    (initagg'.next = initagg.next + 1 /\ InstallsPerAgg) =>
        /\ BindsExistingPerTrans <=> SharingCandidate
        /\ BindsExistingPerTrans => BoundAndMarked

BindIffCandidateNotVolatile ==
    (initagg'.next = initagg.next + 1 /\ InstallsPerAgg) =>
        /\ BindsExistingPerTrans <=> (SharingCandidate /\ NewRef.args # VolatileArgs)
        /\ BindsExistingPerTrans => BoundAndMarked

InitializesGroups ==
    /\ pc = "direct" /\ pc' = "accum"
    /\ rescans' = rescans

\* the step finalizes a group: its row is in fin, returned or not
FinalizesGroup ==
    /\ Len(fin') = Len(fin) + 1
    /\ rescans' = rescans

\* the set of the group the step finalizes
FinalizedSet == fin'[Len(fin')].set

BufferLifecycle ==
    /\ InitializesGroups =>
           \A setno \in 0..(Len(agg'.sortstates) - 1) :
               agg'.pergroups[setno + 1] # agg.pergroups[setno + 1]
                   => agg'.sortstates[setno + 1].active
    /\ FinalizesGroup =>
           /\ agg.sortstates[FinalizedSet + 1].active \/ input = <<>>
           /\ ~agg'.sortstates[FinalizedSet + 1].active
           /\ fin'[Len(fin')].n = Len(agg.sortstates[FinalizedSet + 1].rows)
                                     + (IF pc = "accum" /\ agg.sortstates[FinalizedSet + 1].active
                                        THEN 1 ELSE 0)
    /\ (rescans' # rescans \/ pc' = "ended") =>
           \A setno \in 0..(Len(agg'.sortstates) - 1) :
               ~agg'.sortstates[setno + 1].active

\* a buffer is open only for a group that is being accumulated: the state
\* of the group is the initial one, the rows are in the buffer
OpenOnlyWhileAccumulating ==
    /\ \A setno \in 0..(Len(agg.sortstates) - 1) :
           /\ agg.sortstates[setno + 1].active => agg.pergroups[setno + 1] = InitPG
           /\ ~agg.sortstates[setno + 1].active => agg.sortstates[setno + 1].rows = <<>>
    /\ pc = "accum" =>
           \A setno \in 0..(Len(plan.sorted[agg.current_phase].gsets) - 1) :
               agg.sortstates[setno + 1].active
    /\ pc = "ended" =>
           \A setno \in 0..(Len(agg.sortstates) - 1) : ~agg.sortstates[setno + 1].active

C38_SortBuffersEnded == []OpenOnlyWhileAccumulating /\ [][BufferLifecycle]_vars

\* the group of the finest set has one row and fails HAVING: no row was
\* returned, its buffer is ended, the buffer of the coarser set is open
C38_Witness ==
    /\ plan.having = 2
    /\ pc = "direct"
    /\ Len(fin) = 1
    /\ out = <<>>
    /\ fin[1].set = 0
    /\ fin[1].n = 1
    /\ ~agg.sortstates[1].active
    /\ Len(agg.sortstates) >= 2
    /\ agg.sortstates[2].active
    /\ agg.sortstates[2].rows # <<>>

(***************************************************************************)
(* C39: every tuple on the tape of a batch was spilled for the grouping    *)
(* set of the batch, and the tuples of a batch agree on the input_bits     *)
(* high-order bits of the hash stored with them; so the rows of one        *)
(* grouping key spilled at one level are in the same batch.                *)
(***************************************************************************)
\* the batches that wait and the batch that is being read
LiveBatches ==
    Range(agg.hash_batches) \cup (IF pc = "refill" THEN {agg.batch} ELSE {})

\* what is on the tape of the batch b
BatchData(b) == lts[b.lts].tapes[b.input_tape + 1].data

\* the n high-order bits of a hash value
HighBits(hash, n) == {i \in hash : i <= n}

\* the tuple with its hash was made for the grouping set setno: the hash is
\* that of its key in the set, it holds the columns of the set only
SpilledForSet(e, setno) ==
    /\ e.hash = calculate_hash(KeyOf(e.tuple, plan.hashes[setno + 1]),
                               plan.hashes[setno + 1])
    /\ \A col \in 1..2 : col \notin Range(plan.hashes[setno + 1]) => e.tuple.c[col] = 0

\* the tuples of every batch agree on the bits the batch has consumed
BatchTuplesAgree ==
    \A b \in LiveBatches :
        /\ Len(BatchData(b)) = b.input_tuples
        /\ \A i, j \in DOMAIN BatchData(b) :
               HighBits(BatchData(b)[i].hash, b.input_bits)
                   = HighBits(BatchData(b)[j].hash, b.input_bits)

\* the spilled rows of one key of one set are in one batch
KeyInOneBatch ==
    \A b1, b2 \in LiveBatches :
        (b1.setno = b2.setno /\ b1.input_bits = b2.input_bits
            /\ \E i \in DOMAIN BatchData(b1), j \in DOMAIN BatchData(b2) :
                   KeyOf(BatchData(b1)[i].tuple, plan.hashes[b1.setno + 1])
                       = KeyOf(BatchData(b2)[j].tuple, plan.hashes[b1.setno + 1]))
        => <<b1.lts, b1.input_tape>> = <<b2.lts, b2.input_tape>>

C39_BatchHomogeneous ==
    pc # "crashed" =>
        /\ \A b \in LiveBatches :
               \A i \in DOMAIN BatchData(b) : SpilledForSet(BatchData(b)[i], b.setno)
        /\ BatchTuplesAgree
        /\ KeyInOneBatch

\* two rows of one key wait in one batch of the second of two hashed sets,
\* which has consumed two bits; a batch of the first set waits as well
C39_Witness ==
    /\ \E b \in Range(agg.hash_batches) :
           /\ b.setno = 1
           /\ b.input_bits = 2
           /\ Len(BatchData(b)) = 2
           /\ BatchData(b)[1].tuple.c = BatchData(b)[2].tuple.c
           /\ BatchData(b)[1].hash # {}
    /\ \E b \in Range(agg.hash_batches) : b.setno = 0 /\ Len(BatchData(b)) >= 1

(***************************************************************************)
(* C40: a refill makes progress.  The table rebuilt for a batch of n >= 1  *)
(* tuples starts with hash_no_new_groups cleared, so the first tuple read  *)
(* gets a group in memory and at most n - 1 tuples of the batch are        *)
(* spilled again: the batches made from a batch hold fewer tuples in all   *)
(* than the batch.                                                         *)
(***************************************************************************)
\* the step takes a batch and rebuilds the table for it
StartsRefill == pc = "retrieve" /\ pc' = "refill"

\* the step reads the first tuple of the batch
ReadsFirstTuple ==
    /\ pc = "refill" /\ pc' = "refill"
    /\ lts[agg.batch.lts].tapes[agg.batch.input_tape + 1].rpos = 0
    /\ ~TupIsNull(ReadTuple.tuple)

\* the tuples of the batches from the k-th on of a list
RECURSIVE TuplesFrom(_, _)
TuplesFrom(q, k) ==
    IF k > Len(q) THEN 0 ELSE q[k].input_tuples + TuplesFrom(q, k + 1)

RefillProgress ==
    /\ StartsRefill =>
           /\ ~agg'.hash_no_new_groups
           /\ agg'.hash_ngroups_current = 0
           /\ agg'.batch.spill.partitions = <<>>
    /\ ReadsFirstTuple =>
           /\ agg'.hash_pergroup[agg.batch.setno + 1] # 0
           /\ agg'.hash_ngroups_current = 1
           /\ agg'.batch.spill = agg.batch.spill
           /\ agg'.batch.spill.partitions = <<>>
    /\ (pc = "refill" /\ pc' \in {"refill", "retrieve"}) =>
           SumTo(agg'.batch.spill.ntuples, Len(agg'.batch.spill.ntuples))
               <= Max(lts'[agg.batch.lts].tapes[agg.batch.input_tape + 1].rpos - 1, 0)
    /\ (FinishesBatchSpill /\ agg.batch.input_tuples >= 1) =>
           /\ Len(BatchData(agg.batch)) = agg.batch.input_tuples
           /\ TuplesFrom(agg'.hash_batches, Len(agg.hash_batches) + 1)
                  <= agg.batch.input_tuples - 1
           /\ TuplesFrom(agg'.hash_batches, Len(agg.hash_batches) + 1)
                  = SumTo(agg.batch.spill.ntuples, Len(agg.batch.spill.ntuples))

C40_RefillProgress == [][RefillProgress]_vars

\* a batch of three tuples has been read with room for one group: the
\* batches made from it hold the two other tuples
C40_Witness ==
    /\ pc = "retrieve"
    /\ agg.batch.input_tuples = 3
    /\ agg.batch.spill.n_partitions >= 1
    /\ TuplesFrom(agg.hash_batches, 1) = 2
    /\ agg.hash_ngroups_current = 1

====
